---- MODULE Spec2Model ----
(***************************************************************************)
(* Student-attendance register (SENATI): the relational store declared by  *)
(* the migration, and the React views that read and write it.              *)
(*                                                                         *)
(* Texts are sequences of one-character strings, so that trim(), the       *)
(* regular expressions and includes() are computed as the code computes    *)
(* them.  Row identifiers (uuid) are naturals handed out by a counter; 0   *)
(* is the empty string '' of an unset student_id.  Dates are naturals; 0   *)
(* is the empty value '' of a cleared date input.  console.error writes a   *)
(* log that nothing reads; it is not part of the state.                    *)
(***************************************************************************)
EXTENDS Integers, Sequences, FiniteSets, TLC

\* ------------------------------------------------------------------ bounds
MaxStudentId == 2
MaxAttendanceId == 2
MaxCalls == 2
MaxRefresh == 2
MaxDniLen == 9
MaxNow == 2

\* ------------------------------------------------------------------- texts
Whitespace == {" "}
Digits == {"0", "1", "2", "3", "4", "5", "6", "7", "8", "9"}

\* SQL NULL / JavaScript null: a value that is no text.
NULL == <<"NULL">>

RECURSIVE TrimStart(_)
TrimStart(s) ==
  IF s = << >> THEN << >>
  ELSE IF Head(s) \in Whitespace THEN TrimStart(Tail(s)) ELSE s

RECURSIVE TrimEnd(_)
TrimEnd(s) ==
  IF s = << >> THEN << >>
  ELSE IF s[Len(s)] \in Whitespace THEN TrimEnd(SubSeq(s, 1, Len(s) - 1)) ELSE s

\* String.prototype.trim
Trim(s) == TrimEnd(TrimStart(s))

\* String.prototype.includes
Includes(s, needle) ==
  \E i \in 0..(Len(s) - Len(needle)) :
     \A k \in 1..Len(needle) : s[i + k] = needle[k]

\* JavaScript truthiness of a string, and of `value || null`
Truthy(s) == s # << >> /\ s # NULL
\* Mutant of `value || null`: the value as typed.
SentAsTyped(s) == s
OrNull(s) == IF Truthy(s) THEN s ELSE NULL
OrEmpty(s) == IF Truthy(s) THEN s ELSE << >>

\* ------------------------------------------------ StudentForm: validation
DniDigits == 8
MinSemestre == 1
MaxSemestre == 6

\* Mutant of the dni pattern: /\d{8}/, without the anchors.
DniRegexUnanchored(s) ==
  \E i \in 0..(Len(s) - DniDigits) : \A k \in 1..DniDigits : s[i + k] \in Digits

\* /^\d{8}$/.test(s)
DniRegexTest(s) ==
  Len(s) = DniDigits /\ \A k \in 1..Len(s) : s[k] \in Digits

\* the character class [^\s@]
EmailClass(c) == c \notin Whitespace /\ c # "@"

\* /^[^\s@]+@[^\s@]+\.[^\s@]+$/.test(s): some "@" at a and some "." at d
\* split s into three non-empty runs of class characters.
EmailRegexTest(s) ==
  \E a \in 1..Len(s), d \in 1..Len(s) :
     /\ s[a] = "@"
     /\ s[d] = "."
     /\ 1 < a /\ a + 1 < d /\ d < Len(s)
     /\ \A k \in 1..Len(s) : k # a => EmailClass(s[k])

\* Mutant of the semestre rule: only the upper end is checked.
SemestreAboveOnly(n) == n > MaxSemestre

\* formData.semestre < 1 || formData.semestre > 6
SemestreOutOfRange(n) == n < MinSemestre \/ n > MaxSemestre

NoErrors == [f \in {} |-> ""]

ErrorIf(cond, field, msg) == IF cond THEN field :> msg ELSE NoErrors

\* Mutant of validate: an else-if chain that stops at the first violated rule.
StudentValidateFirstOnly(fd) ==
  IF Trim(fd.codigo) = << >> THEN "codigo" :> "El codigo es requerido"
  ELSE IF Trim(fd.nombres) = << >> THEN "nombres" :> "Los nombres son requeridos"
  ELSE IF Trim(fd.apellidos) = << >> THEN "apellidos" :> "Los apellidos son requeridos"
  ELSE IF Trim(fd.dni) = << >> THEN "dni" :> "El DNI es requerido"
  ELSE IF ~DniRegexTest(fd.dni) THEN "dni" :> "El DNI debe tener 8 digitos"
  ELSE IF fd.carrera = << >> THEN "carrera" :> "La carrera es requerida"
  ELSE IF SemestreOutOfRange(fd.semestre)
       THEN "semestre" :> "El semestre debe estar entre 1 y 6"
  ELSE ErrorIf(fd.email # << >> /\ ~EmailRegexTest(fd.email), "email", "Email invalido")

\* StudentForm.validate: the newErrors object it builds.
StudentValidate(fd) ==
  ErrorIf(Trim(fd.codigo) = << >>, "codigo", "El codigo es requerido")
  @@ ErrorIf(Trim(fd.nombres) = << >>, "nombres", "Los nombres son requeridos")
  @@ ErrorIf(Trim(fd.apellidos) = << >>, "apellidos", "Los apellidos son requeridos")
  @@ (IF Trim(fd.dni) = << >> THEN "dni" :> "El DNI es requerido"
      ELSE ErrorIf(~DniRegexTest(fd.dni), "dni", "El DNI debe tener 8 digitos"))
  @@ ErrorIf(fd.carrera = << >>, "carrera", "La carrera es requerida")
  @@ ErrorIf(SemestreOutOfRange(fd.semestre),
             "semestre", "El semestre debe estar entre 1 y 6")
  @@ ErrorIf(fd.email # << >> /\ ~EmailRegexTest(fd.email), "email", "Email invalido")

\* Object.keys(newErrors).length === 0
NoKeys(errs) == DOMAIN errs = {}

\* A field shows a message when errors[field] is a non-empty string.
Shown(errs) == {f \in DOMAIN errs : errs[f] # ""}

\* --------------------------------------------------- the store's messages
\* PostgreSQL names the violated constraint in the message of the error.
MsgCodigoKey == <<"s", "t", "u", "d", "e", "n", "t", "s", "_", "c", "o",
    "d", "i", "g", "o", "_", "k", "e", "y">>
MsgDniKey == <<"s", "t", "u", "d", "e", "n", "t", "s", "_", "d", "n", "i",
    "_", "k", "e", "y">>
MsgEmailKey == <<"s", "t", "u", "d", "e", "n", "t", "s", "_", "e", "m", "a",
    "i", "l", "_", "k", "e", "y">>
MsgSemestreCheck == <<"s", "t", "u", "d", "e", "n", "t", "s", "_", "s", "e",
    "m", "e", "s", "t", "r", "e", "_", "c", "h", "e", "c", "k">>
MsgEstadoCheck == <<"a", "t", "t", "e", "n", "d", "a", "n", "c", "e", "_",
    "e", "s", "t", "a", "d", "o", "_", "c", "h", "e", "c", "k">>
MsgStudentFkey == <<"a", "t", "t", "e", "n", "d", "a", "n", "c", "e", "_",
    "s", "t", "u", "d", "e", "n", "t", "_", "i", "d", "_", "f", "k", "e", "y">>
MsgNotNull == <<"n", "o", "t", "-", "n", "u", "l", "l">>
MsgDateSyntax == <<"d", "a", "t", "e">>
MsgFetch == <<"F", "a", "i", "l", "e", "d", " ", "t", "o", " ", "f", "e",
    "t", "c", "h">>
KwCodigo == <<"c", "o", "d", "i", "g", "o">>
KwDni == <<"d", "n", "i">>
KwEmail == <<"e", "m", "a", "i", "l">>

UniqueViolation == "23505"
ForeignKeyViolation == "23503"
CheckViolation == "23514"
NotNullViolation == "23502"
InvalidDatetime == "22007"
\* a failed round trip carries no SQLSTATE
TransportFailure == ""

NoError == [code |-> "none", message |-> << >>]
FetchError == [code |-> TransportFailure, message |-> MsgFetch]
Err(code, message) == [code |-> code, message |-> message]

\* ------------------------------------------------------ students: schema
NoId == 0
NoDate == 0
Estados == {"presente", "ausente", "tardanza", "justificado"}

StudentNotNullTexts == {"codigo", "nombres", "apellidos", "dni", "carrera"}
StudentUniqueColumns == {"codigo", "dni", "email"}

UniqueMessage(col) ==
  CASE col = "codigo" -> MsgCodigoKey
    [] col = "dni" -> MsgDniKey
    [] col = "email" -> MsgEmailKey

\* Mutant of the unique constraints: email is not declared UNIQUE.
CollidesNoEmail(p, col, selfId, S) ==
  /\ col # "email"
  /\ p[col] # NULL
  /\ \E r \in S : r.id # selfId /\ r[col] = p[col]

\* UNIQUE on codigo, dni, email: a non-null value equal to that of another row
Collides(p, col, selfId, S) ==
  /\ p[col] # NULL
  /\ \E r \in S : r.id # selfId /\ r[col] = p[col]

\* CHECK (semestre >= 1 AND semestre <= 6)
SemestreCheck(n) == n >= MinSemestre /\ n <= MaxSemestre

\* Every error the students table can raise for the payload p written to
\* the row selfId (NoId for an insert), S being the rows of the table.
StudentErrors(p, selfId, S) ==
  {Err(NotNullViolation, MsgNotNull) : col \in {c \in StudentNotNullTexts : p[c] = NULL}}
  \cup {Err(CheckViolation, MsgSemestreCheck) : x \in {1} \ {IF SemestreCheck(p.semestre) THEN 1 ELSE 0}}
  \cup {Err(UniqueViolation, UniqueMessage(col)) :
          col \in {c \in StudentUniqueColumns : Collides(p, c, selfId, S)}}

\* the value a write gives a column: the one sent, or else the one given
Sent(p, col, otherwise) == IF col \in DOMAIN p THEN p[col] ELSE otherwise

\* the payload names created_at or updated_at
SendsTimestamp(p) == "created_at" \in DOMAIN p \/ "updated_at" \in DOMAIN p

\* the row an INSERT creates: generated id; created_at and updated_at
\* DEFAULT now() when they are not sent
NewStudentRow(p, id, t) ==
  [id |-> id, codigo |-> p.codigo, nombres |-> p.nombres,
   apellidos |-> p.apellidos, dni |-> p.dni, carrera |-> p.carrera,
   semestre |-> p.semestre, email |-> p.email, telefono |-> p.telefono,
   activo |-> p.activo, created_at |-> Sent(p, "created_at", t),
   updated_at |-> Sent(p, "updated_at", t)]

\* Mutant of the trigger: the row is stored as the UPDATE wrote it.
TriggerMissing(new, t) == new

\* update_updated_at_column(), BEFORE UPDATE FOR EACH ROW
UpdateUpdatedAtColumn(new, t) == [new EXCEPT !.updated_at = t]

\* Mutant of UPDATE: a telefono already stored is kept.
UpdatedKeepingTelefono(r, p, t) ==
  [id |-> r.id, codigo |-> p.codigo, nombres |-> p.nombres,
   apellidos |-> p.apellidos, dni |-> p.dni, carrera |-> p.carrera,
   semestre |-> p.semestre, email |-> p.email,
   telefono |-> IF r.telefono # NULL THEN r.telefono ELSE p.telefono,
   activo |-> p.activo, created_at |-> r.created_at, updated_at |-> t]

\* the row an UPDATE leaves: the columns sent are set, then the trigger runs
UpdatedStudentRow(r, p, t) ==
  UpdateUpdatedAtColumn(
    [id |-> r.id, codigo |-> p.codigo, nombres |-> p.nombres,
     apellidos |-> p.apellidos, dni |-> p.dni, carrera |-> p.carrera,
     semestre |-> p.semestre, email |-> p.email, telefono |-> p.telefono,
     activo |-> p.activo, created_at |-> Sent(p, "created_at", r.created_at),
     updated_at |-> Sent(p, "updated_at", r.updated_at)], t)

\* ---------------------------------------------------- attendance: schema
\* Mutant of the foreign key: student_id is a plain uuid column.
ReferenceMissing(sid, S) == TRUE

\* REFERENCES students(id)
ReferenceExists(sid, S) == \E r \in S : r.id = sid

\* Mutant of the estado CHECK: the constraint is missing.
EstadoCheckMissing(e) == TRUE

\* CHECK (estado IN ('presente', 'ausente', 'tardanza', 'justificado'))
EstadoCheck(e) == e \in Estados

AttendanceErrors(p, S) ==
  {Err(NotNullViolation, MsgNotNull) : x \in {1} \ {IF p.curso # NULL THEN 1 ELSE 0}}
  \cup {Err(InvalidDatetime, MsgDateSyntax) : x \in {1} \ {IF p.fecha # NoDate THEN 1 ELSE 0}}
  \cup {Err(CheckViolation, MsgEstadoCheck) : x \in {1} \ {IF EstadoCheck(p.estado) THEN 1 ELSE 0}}
  \cup {Err(ForeignKeyViolation, MsgStudentFkey) : x \in {1} \ {IF ReferenceExists(p.student_id, S) THEN 1 ELSE 0}}

NewAttendanceRow(p, id, t) ==
  [id |-> id, student_id |-> p.student_id, fecha |-> p.fecha,
   estado |-> p.estado, hora_entrada |-> p.hora_entrada, curso |-> p.curso,
   observaciones |-> p.observaciones, created_at |-> t]

UpdatedAttendanceRow(r, p) ==
  [id |-> r.id, student_id |-> p.student_id, fecha |-> p.fecha,
   estado |-> p.estado, hora_entrada |-> p.hora_entrada, curso |-> p.curso,
   observaciones |-> p.observaciones, created_at |-> r.created_at]

\* Mutant of the foreign key: ON DELETE CASCADE is missing (NO ACTION is
\* not modelled; the rows are simply kept).
KeepDependents(A, sid) == A

\* ON DELETE CASCADE: the attendance rows left when student sid is deleted
CascadeDelete(A, sid) == {a \in A : a.student_id # sid}

\* ------------------------------------------------------- order of a fetch
\* the characters of the texts, by UTF-16 code unit
Alphabet == <<" ", ".", "0", "1", "2", "3", "4", "5", "6", "7", "8", "9", "@",
    "A", "B", "M", "a", "b", "x">>
CharRank(c) == CHOOSE i \in 1..Len(Alphabet) : Alphabet[i] = c

RECURSIVE TextLeq(_, _)
TextLeq(a, b) ==
  IF a = << >> THEN TRUE
  ELSE IF b = << >> THEN FALSE
  ELSE IF Head(a) = Head(b) THEN TextLeq(Tail(a), Tail(b))
  ELSE CharRank(Head(a)) < CharRank(Head(b))

\* the sequences that list the rows of S once each
Listings(S) ==
  {q \in [1..Cardinality(S) -> S] : \A i, j \in DOMAIN q : i # j => q[i] # q[j]}

\* .order('apellidos', { ascending: true }): rows with equal apellidos come
\* in any order
OrderByApellidos(S) ==
  {q \in Listings(S) :
     \A i, j \in DOMAIN q : i < j => TextLeq(q[i].apellidos, q[j].apellidos)}

Range(q) == {q[i] : i \in DOMAIN q}

\* select('*, students (*)'): each entry with its owning student
Joined(a, S) ==
  [id |-> a.id, student_id |-> a.student_id, fecha |-> a.fecha,
   estado |-> a.estado, hora_entrada |-> a.hora_entrada, curso |-> a.curso,
   observaciones |-> a.observaciones, created_at |-> a.created_at,
   students |-> IF \E r \in S : r.id = a.student_id
                THEN CHOOSE r \in S : r.id = a.student_id
                ELSE [id |-> NoId]]

\* Mutant of the query: the course filter is never applied.
MatchesDateOnly(a, f) == f.fecha # NoDate => a.fecha = f.fecha

\* .eq('fecha', filterDate) and .eq('curso', filterCurso), each applied only
\* when the filter value is truthy
MatchesFilter(a, f) ==
  /\ (f.fecha # NoDate => a.fecha = f.fecha)
  /\ (f.curso # << >> => a.curso = f.curso)

\* .order('fecha', desc).order('created_at', desc)
OrderByFechaDesc(S) ==
  {q \in Listings(S) :
     \A i, j \in DOMAIN q : i < j =>
        \/ q[i].fecha > q[j].fecha
        \/ q[i].fecha = q[j].fecha /\ q[i].created_at >= q[j].created_at}

\* the attendance list query
SelectAttendance(A, S, f) ==
  OrderByFechaDesc({Joined(a, S) : a \in {x \in A : MatchesFilter(x, f)}})

\* Mutant of the course options: sorted the other way round.
SortedTextsDescending(T) ==
  CHOOSE q \in Listings(T) : \A i, j \in DOMAIN q : i < j => TextLeq(q[j], q[i])

\* [...new Set(texts)].sort()
SortedTexts(T) ==
  CHOOSE q \in Listings(T) : \A i, j \in DOMAIN q : i < j => TextLeq(q[i], q[j])

\* String.prototype.toLowerCase
LowerChar(c) == CASE c = "A" -> "a" [] c = "B" -> "b" [] c = "M" -> "m" [] OTHER -> c
ToLowerCase(s) == [i \in DOMAIN s |-> LowerChar(s[i])]

\* ------------------------------------------------------------------ state
VARIABLES
  students,            \* table students
  attendance,          \* table attendance
  nextStudentId,       \* gen_random_uuid() for students
  nextAttendanceId,    \* gen_random_uuid() for attendance
  now,                 \* now()
  referencedDeleted,   \* history: the entries that referenced a student when
                       \* it was deleted
  stamped,             \* history: the students whose created_at or updated_at
                       \* was sent by a client
  otherAnswer,         \* history: the last answer to another client
  overtaken,           \* history: the list fetches on their way that were
                       \* issued before a fetch whose rows the list has taken
  staleShown,          \* history: the lists whose rows are those of a fetch
                       \* that was overtaken
  calls,               \* the store calls in flight, with their responses
  currentView,         \* App
  showStudentForm,
  showAttendanceForm,
  editingStudent,
  editingAttendance,
  refreshStudents,
  refreshAttendance,
  sfFormData,          \* StudentForm
  sfLoading,
  sfErrors,
  slStudents,          \* StudentList
  slLoading,
  slSearchTerm,
  afStudents,          \* AttendanceForm
  afSearchTerm,
  afShowStudentList,
  afFormData,
  afSelectedStudent,
  afLoading,
  afErrors,
  alAttendances,       \* AttendanceList
  alLoading,
  alFilterDate,
  alFilterCurso,
  alCursos,
  alertMsg             \* the alert() dialog on screen, "" when none

storeVars == <<students, attendance, nextStudentId, nextAttendanceId, now,
              referencedDeleted, stamped>>
appVars == <<currentView, showStudentForm, showAttendanceForm, editingStudent,
             editingAttendance, refreshStudents, refreshAttendance>>
sfVars == <<sfFormData, sfLoading, sfErrors>>
slVars == <<slStudents, slLoading, slSearchTerm>>
afVars == <<afStudents, afSearchTerm, afShowStudentList, afFormData, afSelectedStudent, afLoading, afErrors>>
alVars == <<alAttendances, alLoading, alFilterDate, alFilterCurso, alCursos>>
outVars == <<alertMsg>>
uiVars == <<appVars, sfVars, slVars, afVars, alVars, outVars>>
raceVars == <<overtaken, staleShown>>
vars == <<storeVars, otherAnswer, raceVars, calls, uiVars>>

StudentIds == {r.id : r \in students}

\* ------------------------------------------------------------------ calls
NoPayload == [none |-> TRUE]

Call(id, comp, kind, payload, target) ==
  [id |-> id, comp |-> comp, kind |-> kind, mounted |-> TRUE, phase |-> "sent",
   payload |-> payload, target |-> target, error |-> NoError, data |-> << >>,
   seq |-> 0]

CallIds == {c.id : c \in calls}

\* history: the list fetches on their way are numbered 1, 2, ... in the order
\* they were issued in
NextSeq ==
  1 + (CHOOSE m \in {c.seq : c \in calls} \cup {0} : \A c \in calls : c.seq <= m)
NewCallId == CHOOSE i \in 1..(Cardinality(calls) + 1) : i \notin CallIds

Room == Cardinality(calls) < MaxCalls

Done(c, error, data) == [c EXCEPT !.phase = "done", !.error = error, !.data = data]

\* the calls of a component instance that is unmounted outlive it
Unmount(C, comp) ==
  {IF c.comp = comp THEN [c EXCEPT !.mounted = FALSE] ELSE c : c \in C}

\* Mutant of the lists: the rows of a fetch are dropped when a fetch issued
\* after it has come back already.
AppliedInIssueOrder(c) == c.mounted /\ c.id \notin overtaken

\* setStudents(data) and setAttendances(data) of whatever fetch comes back to
\* a list that is still mounted
Applied(c) == c.mounted

\* history: the fetches of the same list issued before c and still on their way
Overtakes(c) ==
  {d.id : d \in {x \in calls : x.kind = c.kind /\ x.mounted /\ x.seq < c.seq}}

\* history: the calls on their way once the list fetch c has come back
Without(c) ==
  {IF d.seq > c.seq THEN [d EXCEPT !.seq = d.seq - 1] ELSE d : d \in calls \ {c}}

\* history: what the list fetch c leaves behind when it comes back
RaceAfter(c) ==
  IF c.error = NoError /\ Applied(c)
  THEN /\ overtaken' = (overtaken \ {c.id}) \cup Overtakes(c)
       /\ staleShown' = IF c.id \in overtaken THEN staleShown \cup {c.comp}
                         ELSE staleShown \ {c.comp}
  ELSE /\ overtaken' = overtaken \ {c.id}
       /\ staleShown' = staleShown

\* -------------------------------------------------------------- the store

Answer(error, data) == [error |-> error, data |-> data]

\* Mutant of the roster query: every student, active or not.
EveryStudent(S) == S

\* .eq('activo', true)
ActiveOnly(S) == {r \in S : r.activo}

\* what the store can answer to a call that reaches it
Answers(kind, p, target) ==
  CASE kind = "students.select" ->
         {Answer(NoError, q) : q \in OrderByApellidos(students)}
    [] kind = "students.selectActive" ->
         {Answer(NoError, q) : q \in OrderByApellidos(ActiveOnly(students))}
    [] kind = "attendance.select" ->
         {Answer(NoError, q) : q \in SelectAttendance(attendance, students, p)}
    [] kind = "students.insert" ->
         IF StudentErrors(p, NoId, students) = {}
         THEN {Answer(NoError, << >>)}
         ELSE {Answer(e, << >>) : e \in StudentErrors(p, NoId, students)}
    [] kind = "students.update" ->
         IF (\E r \in students : r.id = target)
              /\ StudentErrors(p, target, students) # {}
         THEN {Answer(e, << >>) : e \in StudentErrors(p, target, students)}
         ELSE {Answer(NoError, << >>)}
    [] kind = "attendance.insert" ->
         IF AttendanceErrors(p, students) = {}
         THEN {Answer(NoError, << >>)}
         ELSE {Answer(e, << >>) : e \in AttendanceErrors(p, students)}
    [] kind = "attendance.update" ->
         IF (\E a \in attendance : a.id = target)
              /\ AttendanceErrors(p, students) # {}
         THEN {Answer(e, << >>) : e \in AttendanceErrors(p, students)}
         ELSE {Answer(NoError, << >>)}
    [] kind \in {"students.delete", "attendance.delete"} ->
         {Answer(NoError, << >>)}

\* what a call that the store accepts does to the tables
StoreWrite(kind, p, target) ==
  CASE kind = "students.insert" ->
         /\ nextStudentId <= MaxStudentId
         /\ students' = students \cup {NewStudentRow(p, nextStudentId, now)}
         /\ nextStudentId' = nextStudentId + 1
         /\ stamped' = IF SendsTimestamp(p) THEN stamped \cup {nextStudentId}
                        ELSE stamped
         /\ UNCHANGED <<attendance, nextAttendanceId, now, referencedDeleted>>
    [] kind = "students.update" ->
         /\ students' = {IF r.id = target THEN UpdatedStudentRow(r, p, now) ELSE r :
                           r \in students}
         /\ stamped' = IF "created_at" \in DOMAIN p /\ target \in StudentIds
                        THEN stamped \cup {target}
                        ELSE stamped
         /\ UNCHANGED <<attendance, nextStudentId, nextAttendanceId, now,
                        referencedDeleted>>
    [] kind = "students.delete" ->
         /\ students' = {r \in students : r.id # target}
         /\ attendance' = CascadeDelete(attendance, target)
         /\ referencedDeleted' = referencedDeleted \cup
              {a.id : a \in {x \in attendance :
                               x.student_id = target
                               /\ \E r \in students : r.id = target}}
         /\ UNCHANGED <<nextStudentId, nextAttendanceId, now, stamped>>
    [] kind = "attendance.insert" ->
         /\ nextAttendanceId <= MaxAttendanceId
         /\ attendance' = attendance \cup
              {NewAttendanceRow(p, nextAttendanceId, now)}
         /\ nextAttendanceId' = nextAttendanceId + 1
         /\ UNCHANGED <<students, nextStudentId, now, referencedDeleted, stamped>>
    [] kind = "attendance.update" ->
         /\ attendance' = {IF a.id = target THEN UpdatedAttendanceRow(a, p) ELSE a :
                             a \in attendance}
         /\ UNCHANGED <<students, nextStudentId, nextAttendanceId, now,
                        referencedDeleted, stamped>>
    [] kind = "attendance.delete" ->
         /\ attendance' = {a \in attendance : a.id # target}
         /\ UNCHANGED <<students, nextStudentId, nextAttendanceId, now,
                        referencedDeleted, stamped>>
    [] OTHER -> UNCHANGED storeVars

\* the store executes a call and answers it
Execute(kind, p, target, answer) ==
  /\ answer \in Answers(kind, p, target)
  /\ IF answer.error = NoError
     THEN StoreWrite(kind, p, target)
     ELSE UNCHANGED storeVars

\* a call of this client reaches the store and is answered
StoreAnswers(c) ==
  /\ c \in calls
  /\ c.phase = "sent"
  /\ \E r \in Answers(c.kind, c.payload, c.target) :
        /\ Execute(c.kind, c.payload, c.target, r)
        /\ calls' = (calls \ {c}) \cup {Done(c, r.error, r.data)}
  /\ UNCHANGED <<raceVars, otherAnswer, uiVars>>

\* the round trip of a call of this client fails
RoundTripFails(c) ==
  /\ c \in calls
  /\ c.phase = "sent"
  /\ calls' = (calls \ {c}) \cup {Done(c, FetchError, << >>)}
  /\ UNCHANGED <<storeVars, raceVars, otherAnswer, uiVars>>

\* a call of this client reaches the store, or its round trip fails
StoreExec(c) == StoreAnswers(c) \/ RoundTripFails(c)

\* ---------------------------------------------------------- other clients
\* The policies of the migration let any client insert, update and delete
\* any row, with any values: a call of any client but this one, executed.
Other(kind, p, target) ==
  /\ \E r \in Answers(kind, p, target) :
        /\ Execute(kind, p, target, r)
        /\ otherAnswer' = r.error
  /\ UNCHANGED <<raceVars, calls, uiVars>>

\* time passes
Tick ==
  /\ now < MaxNow
  /\ now' = now + 1
  /\ UNCHANGED <<students, attendance, nextStudentId, nextAttendanceId,
                 referencedDeleted, stamped, otherAnswer, raceVars, calls, uiVars>>

\* -------------------------------------------------------------------- App
NoStudent == [id |-> NoId]
NoAttendance == [id |-> NoId]
NoForm == ~showStudentForm /\ ~showAttendanceForm
\* alert() suspends the page until it is dismissed
Idle == alertMsg = ""

\* Mutant of handleSave...: the refresh counter is left as it is.
NotIncremented(prev) == prev

\* setRefreshStudents((prev) => prev + 1), setRefreshAttendance alike
Incremented(prev) == prev + 1

\* Mutant of the submit button: never disabled.
SubmitAlwaysEnabled(loading) == FALSE

\* disabled={loading} of the submit button of either form
SubmitDisabled(loading) == loading

\* Mutant of the catch of handleDelete: no alert.
NoDeleteAlert == ""

\* alert(...) in the catch of handleDelete of either list
StudentDeleteAlert == "Error al eliminar el estudiante"
AttendanceDeleteAlert == "Error al eliminar el registro"

\* ------------------------------------------------------------ StudentForm
StudentFormInitial ==
  [codigo |-> << >>, nombres |-> << >>, apellidos |-> << >>, dni |-> << >>,
   carrera |-> << >>, semestre |-> 1, email |-> << >>, telefono |-> << >>,
   activo |-> TRUE]

\* useEffect([student]): the form is filled from the student being edited
StudentFormPrefill(r) ==
  [codigo |-> r.codigo, nombres |-> r.nombres, apellidos |-> r.apellidos,
   dni |-> r.dni, carrera |-> r.carrera, semestre |-> r.semestre,
   email |-> OrEmpty(r.email), telefono |-> OrEmpty(r.telefono),
   activo |-> r.activo]

\* dataToSave
StudentDataToSave(fd) ==
  [fd EXCEPT !.email = OrNull(fd.email), !.telefono = OrNull(fd.telefono)]

\* the component leaves the page: its state is gone
StudentFormGone ==
  /\ sfFormData' = StudentFormInitial
  /\ sfLoading' = FALSE
  /\ sfErrors' = NoErrors

\* Mutant of the catch block: the dni and email messages are swapped.
UniqueErrorFieldSwapped(message) ==
  IF Includes(message, KwCodigo) THEN "codigo"
  ELSE IF Includes(message, KwDni) THEN "email"
  ELSE IF Includes(message, KwEmail) THEN "dni"
  ELSE "none"

\* catch, error.code === '23505': the field that gets the message
UniqueErrorField(message) ==
  IF Includes(message, KwCodigo) THEN "codigo"
  ELSE IF Includes(message, KwDni) THEN "dni"
  ELSE IF Includes(message, KwEmail) THEN "email"
  ELSE "none"

UniqueErrorText(field) ==
  CASE field = "codigo" -> "Este codigo ya esta registrado"
    [] field = "dni" -> "Este DNI ya esta registrado"
    [] field = "email" -> "Este email ya esta registrado"

\* loadStudents of StudentList, as a call
LoadStudentsCall(id, mounted) ==
  [Call(id, "StudentList", "students.select", NoPayload, NoId)
     EXCEPT !.mounted = mounted, !.seq = NextSeq]

\* App.handleAddStudent, from the button of the list
HandleAddStudent ==
  /\ Idle /\ NoForm
  /\ currentView = "students" /\ ~slLoading
  /\ editingStudent' = NoStudent
  /\ showStudentForm' = TRUE
  /\ sfFormData' = StudentFormInitial
  /\ sfLoading' = FALSE
  /\ sfErrors' = NoErrors
  /\ UNCHANGED <<raceVars, otherAnswer, storeVars, calls, currentView, showAttendanceForm,
                 editingAttendance, refreshStudents, refreshAttendance,
                 slVars, afVars, alVars, outVars>>

\* App.handleEditStudent, from the row of the list
HandleEditStudent(r) ==
  /\ Idle /\ NoForm
  /\ currentView = "students" /\ ~slLoading
  /\ r \in Range(slStudents)
  /\ editingStudent' = r
  /\ showStudentForm' = TRUE
  /\ sfFormData' = StudentFormPrefill(r)
  /\ sfLoading' = FALSE
  /\ sfErrors' = NoErrors
  /\ UNCHANGED <<raceVars, otherAnswer, storeVars, calls, currentView, showAttendanceForm,
                 editingAttendance, refreshStudents, refreshAttendance,
                 slVars, afVars, alVars, outVars>>

\* App.handleCloseStudentForm, from the X and Cancelar buttons
HandleCloseStudentForm ==
  /\ Idle
  /\ showStudentForm
  /\ showStudentForm' = FALSE
  /\ editingStudent' = NoStudent
  /\ StudentFormGone
  /\ calls' = Unmount(calls, "StudentForm")
  /\ UNCHANGED <<raceVars, otherAnswer, storeVars, currentView, showAttendanceForm,
                 editingAttendance, refreshStudents, refreshAttendance,
                 slVars, afVars, alVars, outVars>>

\* StudentForm.handleChange
StudentHandleChange(name, value) ==
  /\ Idle
  /\ showStudentForm
  /\ sfFormData[name] # value
  /\ sfFormData' = [sfFormData EXCEPT ![name] = value]
  /\ sfErrors' = IF name \in DOMAIN sfErrors /\ sfErrors[name] # ""
                 THEN [sfErrors EXCEPT ![name] = ""]
                 ELSE sfErrors
  /\ UNCHANGED <<raceVars, otherAnswer, storeVars, calls, appVars, sfLoading, slVars, afVars, alVars,
                 outVars>>

\* StudentForm.handleSubmit, up to the await
StudentHandleSubmit ==
  /\ Idle
  /\ showStudentForm /\ ~SubmitDisabled(sfLoading)
  /\ Room
  /\ refreshStudents < MaxRefresh
  /\ LET errs == StudentValidate(sfFormData) IN
     /\ sfErrors' = errs
     /\ IF NoKeys(errs)
        THEN /\ sfLoading' = TRUE
             /\ calls' = calls \cup
                  {IF editingStudent # NoStudent
                   THEN Call(NewCallId, "StudentForm", "students.update",
                             StudentDataToSave(sfFormData), editingStudent.id)
                   ELSE Call(NewCallId, "StudentForm", "students.insert",
                             StudentDataToSave(sfFormData), NoId)}
        ELSE UNCHANGED <<sfLoading, calls>>
  /\ UNCHANGED <<raceVars, otherAnswer, storeVars, appVars, sfFormData, slVars, afVars, alVars, outVars>>

\* StudentForm.handleSubmit, after the await
StudentFormReceive(c) ==
  /\ Idle
  /\ c \in calls /\ c.comp = "StudentForm" /\ c.phase = "done"
  /\ IF c.error = NoError
     THEN \* onSave(): App.handleSaveStudent, then the effect of the list
          /\ showStudentForm' = FALSE
          /\ editingStudent' = NoStudent
          /\ refreshStudents' = Incremented(refreshStudents)
          /\ StudentFormGone
          /\ IF currentView = "students"
             THEN /\ slLoading' = TRUE
                  /\ calls' = Unmount(calls \ {c}, "StudentForm")
                                \cup {LoadStudentsCall(c.id, TRUE)}
             ELSE /\ slLoading' = slLoading
                  /\ calls' = Unmount(calls \ {c}, "StudentForm")
          /\ UNCHANGED <<slStudents, slSearchTerm, outVars>>
     ELSE /\ calls' = calls \ {c}
          /\ IF c.error.code = UniqueViolation
             THEN /\ sfErrors' =
                       IF c.mounted /\ UniqueErrorField(c.error.message) # "none"
                       THEN UniqueErrorField(c.error.message)
                              :> UniqueErrorText(UniqueErrorField(c.error.message))
                       ELSE sfErrors
                  /\ alertMsg' = alertMsg
             ELSE /\ alertMsg' = "Error al guardar el estudiante"
                  /\ sfErrors' = sfErrors
          /\ sfLoading' = IF c.mounted THEN FALSE ELSE sfLoading
          /\ UNCHANGED <<showStudentForm, editingStudent, refreshStudents,
                         sfFormData, slVars>>
  /\ UNCHANGED <<raceVars, otherAnswer, storeVars, currentView, showAttendanceForm, editingAttendance,
                 refreshAttendance, afVars, alVars>>

\* ------------------------------------------------------------ StudentList
\* StudentList.handleDelete, up to the await
StudentListHandleDelete(r, confirmed) ==
  /\ Idle /\ NoForm
  /\ currentView = "students" /\ ~slLoading
  /\ r \in Range(slStudents)
  /\ IF confirmed
     THEN /\ Room
          /\ calls' = calls \cup
                {Call(NewCallId, "StudentList", "students.delete", NoPayload, r.id)}
     ELSE UNCHANGED calls
  /\ UNCHANGED <<raceVars, otherAnswer, storeVars, uiVars>>

\* loadStudents and handleDelete of StudentList, after the await
StudentListReceive(c) ==
  /\ Idle
  /\ c \in calls /\ c.comp = "StudentList" /\ c.phase = "done"
  /\ \/ /\ c.kind = "students.select"
        /\ calls' = Without(c)
        /\ IF c.error = NoError
           THEN /\ slStudents' = IF Applied(c) THEN c.data ELSE slStudents
                /\ UNCHANGED outVars
           ELSE /\ UNCHANGED <<slStudents, alertMsg>>
        /\ slLoading' = IF c.mounted THEN FALSE ELSE slLoading
        /\ RaceAfter(c)
        /\ UNCHANGED slSearchTerm
     \/ /\ c.kind = "students.delete"
        /\ IF c.error = NoError
           THEN /\ calls' = (calls \ {c}) \cup {LoadStudentsCall(c.id, c.mounted)}
                /\ slLoading' = IF c.mounted THEN TRUE ELSE slLoading
                /\ UNCHANGED <<slStudents, slSearchTerm, outVars>>
           ELSE /\ calls' = calls \ {c}
                /\ alertMsg' = StudentDeleteAlert
                /\ UNCHANGED slVars
        /\ UNCHANGED raceVars
  /\ UNCHANGED <<otherAnswer, storeVars, appVars, sfVars, afVars, alVars>>

\* Mutant of the list filter: the term is compared as typed.
StudentMatchesAsTyped(r, term) ==
  \/ Includes(r.nombres, term)
  \/ Includes(r.apellidos, term)
  \/ Includes(r.codigo, term)
  \/ Includes(r.dni, term)

\* the predicate of students.filter(...): the lower-cased term in the
\* lower-cased nombres, apellidos or codigo, or in the dni as stored
StudentMatches(r, term) ==
  LET search == ToLowerCase(term) IN
    \/ Includes(ToLowerCase(r.nombres), search)
    \/ Includes(ToLowerCase(r.apellidos), search)
    \/ Includes(ToLowerCase(r.codigo), search)
    \/ Includes(r.dni, search)

\* filteredStudents, the rows of the table
FilteredStudents == SelectSeq(slStudents, LAMBDA r : StudentMatches(r, slSearchTerm))

\* onChange of the search input, rendered once the list is loaded
StudentListSearch(term) ==
  /\ Idle /\ NoForm
  /\ currentView = "students" /\ ~slLoading
  /\ term # slSearchTerm
  /\ slSearchTerm' = term
  /\ UNCHANGED <<raceVars, otherAnswer, storeVars, calls, appVars, sfVars, slStudents, slLoading,
                 afVars, alVars, outVars>>

\* the user closes the alert() dialog
DismissAlert ==
  /\ alertMsg # ""
  /\ alertMsg' = ""
  /\ UNCHANGED <<raceVars, otherAnswer, storeVars, calls, appVars, sfVars, slVars, afVars, alVars>>

\* --------------------------------------------------------- AttendanceForm
Today == 1

AttendanceFormInitial ==
  [student_id |-> NoId, fecha |-> Today, estado |-> "presente",
   hora_entrada |-> << >>, curso |-> << >>, observaciones |-> << >>]

\* useEffect([attendance]): the form is filled from the entry being edited
AttendanceFormPrefill(a) ==
  [student_id |-> a.student_id, fecha |-> a.fecha, estado |-> a.estado,
   hora_entrada |-> OrEmpty(a.hora_entrada), curso |-> a.curso,
   observaciones |-> OrEmpty(a.observaciones)]

\* dataToSave
AttendanceDataToSave(fd) ==
  [fd EXCEPT !.hora_entrada = OrNull(fd.hora_entrada),
             !.observaciones = OrNull(fd.observaciones)]

\* Mutant of validate: the curso rule tests the text without trim().
AttendanceValidateNoTrim(fd) ==
  ErrorIf(fd.student_id = NoId, "student_id", "Debe seleccionar un estudiante")
  @@ ErrorIf(fd.fecha = NoDate, "fecha", "La fecha es requerida")
  @@ ErrorIf(fd.curso = << >>, "curso", "El curso es requerido")

\* AttendanceForm.validate: the newErrors object it builds
AttendanceValidate(fd) ==
  ErrorIf(fd.student_id = NoId, "student_id", "Debe seleccionar un estudiante")
  @@ ErrorIf(fd.fecha = NoDate, "fecha", "La fecha es requerida")
  @@ ErrorIf(Trim(fd.curso) = << >>, "curso", "El curso es requerido")

\* filteredStudents of AttendanceForm
AttendanceFormFiltered ==
  SelectSeq(afStudents,
    LAMBDA r : LET search == ToLowerCase(afSearchTerm) IN
       \/ Includes(ToLowerCase(r.nombres), search)
       \/ Includes(ToLowerCase(r.apellidos), search)
       \/ Includes(ToLowerCase(r.codigo), search))

AttendanceFormGone ==
  /\ afStudents' = << >>
  /\ afSearchTerm' = << >>
  /\ afShowStudentList' = FALSE
  /\ afFormData' = AttendanceFormInitial
  /\ afSelectedStudent' = NoStudent
  /\ afLoading' = FALSE
  /\ afErrors' = NoErrors

\* Mutant of loadAttendances: the filters on screen, not those of the call.
LoadAttendancesCallOnScreen(id, mounted, fecha, curso) ==
  [Call(id, "AttendanceList", "attendance.select",
        [fecha |-> alFilterDate, curso |-> alFilterCurso], NoId)
     EXCEPT !.mounted = mounted, !.seq = NextSeq]

\* loadAttendances of AttendanceList, as a call with the filters of the
\* render it was issued from
LoadAttendancesCall(id, mounted, fecha, curso) ==
  [Call(id, "AttendanceList", "attendance.select",
        [fecha |-> fecha, curso |-> curso], NoId)
     EXCEPT !.mounted = mounted, !.seq = NextSeq]

\* App.handleAddAttendance, and the mount of the form: loadStudents()
HandleAddAttendance ==
  /\ Idle /\ NoForm
  /\ currentView = "attendance" /\ ~alLoading
  /\ Room
  /\ editingAttendance' = NoAttendance
  /\ showAttendanceForm' = TRUE
  /\ afStudents' = << >>
  /\ afSearchTerm' = << >>
  /\ afShowStudentList' = FALSE
  /\ afFormData' = AttendanceFormInitial
  /\ afSelectedStudent' = NoStudent
  /\ afLoading' = FALSE
  /\ afErrors' = NoErrors
  /\ calls' = calls \cup
       {Call(NewCallId, "AttendanceForm", "students.selectActive", NoPayload, NoId)}
  /\ UNCHANGED <<raceVars, otherAnswer, storeVars, currentView, showStudentForm, editingStudent,
                 refreshStudents, refreshAttendance, sfVars, slVars, alVars,
                 outVars>>

\* App.handleEditAttendance, and the mount of the form
HandleEditAttendance(a) ==
  /\ Idle /\ NoForm
  /\ currentView = "attendance" /\ ~alLoading
  /\ a \in Range(alAttendances)
  /\ Room
  /\ editingAttendance' = a
  /\ showAttendanceForm' = TRUE
  /\ afStudents' = << >>
  /\ afSearchTerm' = << >>
  /\ afShowStudentList' = FALSE
  /\ afFormData' = AttendanceFormPrefill(a)
  /\ afSelectedStudent' = a.students
  /\ afLoading' = FALSE
  /\ afErrors' = NoErrors
  /\ calls' = calls \cup
       {Call(NewCallId, "AttendanceForm", "students.selectActive", NoPayload, NoId)}
  /\ UNCHANGED <<raceVars, otherAnswer, storeVars, currentView, showStudentForm, editingStudent,
                 refreshStudents, refreshAttendance, sfVars, slVars, alVars,
                 outVars>>

\* App.handleCloseAttendanceForm
HandleCloseAttendanceForm ==
  /\ Idle
  /\ showAttendanceForm
  /\ showAttendanceForm' = FALSE
  /\ editingAttendance' = NoAttendance
  /\ AttendanceFormGone
  /\ calls' = Unmount(calls, "AttendanceForm")
  /\ UNCHANGED <<raceVars, otherAnswer, storeVars, currentView, showStudentForm, editingStudent,
                 refreshStudents, refreshAttendance, sfVars, slVars, alVars,
                 outVars>>

\* Mutant of the Cambiar button: rendered in edit mode as well.
ChangeShownInEditToo == showAttendanceForm /\ afSelectedStudent # NoStudent

\* Mutant of the student field: the search input is drawn beside the
\* selected student.
SearchShownBesideSelected == showAttendanceForm

\* {selectedStudent ? (... {!attendance && (<button>Cambiar</button>)}) :
\* (<input search>)}: what the student field of the form renders
RosterSearchShown == showAttendanceForm /\ afSelectedStudent = NoStudent
ChangeSelectionShown ==
  /\ showAttendanceForm /\ afSelectedStudent # NoStudent
  /\ editingAttendance = NoAttendance

\* the search box: onChange and onFocus
AttendanceSearch(term) ==
  /\ Idle
  /\ RosterSearchShown
  /\ afSearchTerm' = term
  /\ afShowStudentList' = TRUE
  /\ afSearchTerm # term \/ ~afShowStudentList
  /\ UNCHANGED <<raceVars, otherAnswer, storeVars, calls, appVars, sfVars, slVars, afStudents,
                 afFormData, afSelectedStudent, afLoading, afErrors, alVars,
                 outVars>>

\* AttendanceForm.selectStudent, from a row of the roster
SelectStudent(r) ==
  /\ Idle
  /\ RosterSearchShown /\ afShowStudentList
  /\ r \in Range(AttendanceFormFiltered)
  /\ afSelectedStudent' = r
  /\ afFormData' = [afFormData EXCEPT !.student_id = r.id]
  /\ afShowStudentList' = FALSE
  /\ afSearchTerm' = << >>
  /\ afErrors' = IF "student_id" \in DOMAIN afErrors /\ afErrors["student_id"] # ""
                 THEN [afErrors EXCEPT !["student_id"] = ""]
                 ELSE afErrors
  /\ UNCHANGED <<raceVars, otherAnswer, storeVars, calls, appVars, sfVars, slVars, afStudents,
                 afLoading, alVars, outVars>>

\* the Cambiar button, rendered when a student is selected and no entry is
\* being edited
ChangeSelection ==
  /\ Idle
  /\ ChangeSelectionShown
  /\ afSelectedStudent' = NoStudent
  /\ afFormData' = [afFormData EXCEPT !.student_id = NoId]
  /\ UNCHANGED <<raceVars, otherAnswer, storeVars, calls, appVars, sfVars, slVars, afStudents,
                 afSearchTerm, afShowStudentList, afLoading, afErrors, alVars,
                 outVars>>

\* AttendanceForm.handleChange
AttendanceHandleChange(name, value) ==
  /\ Idle
  /\ showAttendanceForm
  /\ afFormData[name] # value
  /\ afFormData' = [afFormData EXCEPT ![name] = value]
  /\ afErrors' = IF name \in DOMAIN afErrors /\ afErrors[name] # ""
                 THEN [afErrors EXCEPT ![name] = ""]
                 ELSE afErrors
  /\ UNCHANGED <<raceVars, otherAnswer, storeVars, calls, appVars, sfVars, slVars, afStudents,
                 afSearchTerm, afShowStudentList, afSelectedStudent, afLoading,
                 alVars, outVars>>

\* AttendanceForm.handleSubmit, up to the await
AttendanceHandleSubmit ==
  /\ Idle
  /\ showAttendanceForm /\ ~SubmitDisabled(afLoading)
  /\ Room
  /\ refreshAttendance < MaxRefresh
  /\ LET errs == AttendanceValidate(afFormData) IN
     /\ afErrors' = errs
     /\ IF NoKeys(errs)
        THEN /\ afLoading' = TRUE
             /\ calls' = calls \cup
                  {IF editingAttendance # NoAttendance
                   THEN Call(NewCallId, "AttendanceForm", "attendance.update",
                             AttendanceDataToSave(afFormData), editingAttendance.id)
                   ELSE Call(NewCallId, "AttendanceForm", "attendance.insert",
                             AttendanceDataToSave(afFormData), NoId)}
        ELSE UNCHANGED <<afLoading, calls>>
  /\ UNCHANGED <<raceVars, otherAnswer, storeVars, appVars, sfVars, slVars, afStudents, afSearchTerm,
                 afShowStudentList, afFormData, afSelectedStudent, alVars, outVars>>

\* loadStudents and handleSubmit of AttendanceForm, after the await
AttendanceFormReceive(c) ==
  /\ Idle
  /\ c \in calls /\ c.comp = "AttendanceForm" /\ c.phase = "done"
  /\ \/ /\ c.kind = "students.selectActive"
        /\ calls' = calls \ {c}
        /\ IF c.error = NoError
           THEN /\ afStudents' = IF c.mounted THEN c.data ELSE afStudents
                /\ UNCHANGED outVars
           ELSE /\ UNCHANGED <<afStudents, alertMsg>>
        /\ UNCHANGED <<showAttendanceForm, editingAttendance, refreshAttendance,
                       afSearchTerm, afShowStudentList, afFormData,
                       afSelectedStudent, afLoading, afErrors, alVars>>
     \/ /\ c.kind \in {"attendance.insert", "attendance.update"}
        /\ IF c.error = NoError
           THEN \* onSave(): App.handleSaveAttendance, then the effect of the list
                /\ showAttendanceForm' = FALSE
                /\ editingAttendance' = NoAttendance
                /\ refreshAttendance' = Incremented(refreshAttendance)
                /\ AttendanceFormGone
                /\ IF currentView = "attendance"
                   THEN /\ alLoading' = TRUE
                        /\ calls' = Unmount(calls \ {c}, "AttendanceForm")
                              \cup {LoadAttendancesCall(c.id, TRUE, alFilterDate,
                                                        alFilterCurso)}
                   ELSE /\ alLoading' = alLoading
                        /\ calls' = Unmount(calls \ {c}, "AttendanceForm")
                /\ UNCHANGED <<alAttendances, alFilterDate, alFilterCurso,
                               alCursos, outVars>>
           ELSE /\ alertMsg' = "Error al guardar el registro de asistencia"
                /\ calls' = calls \ {c}
                /\ afLoading' = IF c.mounted THEN FALSE ELSE afLoading
                /\ UNCHANGED <<showAttendanceForm, editingAttendance,
                               refreshAttendance, afStudents, afSearchTerm,
                               afShowStudentList, afFormData, afSelectedStudent,
                               afErrors, alVars>>
  /\ UNCHANGED <<raceVars, otherAnswer, storeVars, currentView, showStudentForm, editingStudent,
                 refreshStudents, sfVars, slVars>>

\* --------------------------------------------------------- AttendanceList
\* setFilterDate / setFilterCurso, and the effect they trigger
SetFilter(fecha, curso) ==
  /\ Idle /\ NoForm
  /\ currentView = "attendance" /\ ~alLoading
  /\ \/ fecha # alFilterDate /\ curso = alFilterCurso
     \/ fecha = alFilterDate /\ curso # alFilterCurso
          /\ curso \in Range(alCursos) \cup {<< >>}
  /\ Room
  /\ alFilterDate' = fecha
  /\ alFilterCurso' = curso
  /\ alLoading' = TRUE
  /\ calls' = calls \cup {LoadAttendancesCall(NewCallId, TRUE, fecha, curso)}
  /\ UNCHANGED <<raceVars, otherAnswer, storeVars, appVars, sfVars, slVars, afVars, alAttendances,
                 alCursos, outVars>>

\* AttendanceList.handleDelete, up to the await
AttendanceListHandleDelete(a, confirmed) ==
  /\ Idle /\ NoForm
  /\ currentView = "attendance" /\ ~alLoading
  /\ a \in Range(alAttendances)
  /\ IF confirmed
     THEN /\ Room
          /\ calls' = calls \cup
                {Call(NewCallId, "AttendanceList", "attendance.delete",
                      [fecha |-> alFilterDate, curso |-> alFilterCurso], a.id)}
     ELSE UNCHANGED calls
  /\ UNCHANGED <<raceVars, otherAnswer, storeVars, uiVars>>

\* loadAttendances and handleDelete of AttendanceList, after the await
AttendanceListReceive(c) ==
  /\ Idle
  /\ c \in calls /\ c.comp = "AttendanceList" /\ c.phase = "done"
  /\ \/ /\ c.kind = "attendance.select"
        /\ calls' = Without(c)
        /\ IF c.error = NoError
           THEN /\ alAttendances' = IF Applied(c) THEN c.data ELSE alAttendances
                /\ alCursos' = IF Applied(c)
                               THEN SortedTexts({a.curso : a \in Range(c.data)})
                               ELSE alCursos
                /\ UNCHANGED outVars
           ELSE /\ UNCHANGED <<alAttendances, alCursos, alertMsg>>
        /\ alLoading' = IF c.mounted THEN FALSE ELSE alLoading
        /\ RaceAfter(c)
     \/ /\ c.kind = "attendance.delete"
        /\ IF c.error = NoError
           THEN \* loadAttendances() of the render handleDelete was called from
                /\ calls' = (calls \ {c}) \cup
                     {LoadAttendancesCall(c.id, c.mounted, c.payload.fecha,
                                          c.payload.curso)}
                /\ alLoading' = IF c.mounted THEN TRUE ELSE alLoading
                /\ UNCHANGED <<alAttendances, alCursos, outVars>>
           ELSE /\ calls' = calls \ {c}
                /\ alertMsg' = AttendanceDeleteAlert
                /\ UNCHANGED <<alAttendances, alLoading, alCursos>>
        /\ UNCHANGED raceVars
  /\ UNCHANGED <<otherAnswer, storeVars, appVars, sfVars, slVars, afVars, alFilterDate,
                 alFilterCurso>>

\* --------------------------------------------------------- App: the views
\* setCurrentView: the list on screen is unmounted, the other one is mounted
\* and fetches.  The buttons lie under the overlay of an open form.
SetCurrentView(v) ==
  /\ Idle /\ NoForm
  /\ v # currentView
  /\ Room
  /\ currentView' = v
  /\ IF v = "attendance"
     THEN /\ calls' = Unmount(calls, "StudentList") \cup
               {LoadAttendancesCall(NewCallId, TRUE, Today, << >>)}
     ELSE /\ calls' = Unmount(calls, "AttendanceList") \cup
               {LoadStudentsCall(NewCallId, TRUE)}
  /\ slStudents' = << >>
  /\ slLoading' = (v = "students")
  /\ slSearchTerm' = << >>
  /\ alAttendances' = << >>
  /\ alLoading' = (v = "attendance")
  /\ alFilterDate' = Today
  /\ alFilterCurso' = << >>
  /\ alCursos' = << >>
  /\ staleShown' = {}
  /\ UNCHANGED <<overtaken, otherAnswer, storeVars, showStudentForm, showAttendanceForm, editingStudent,
                 editingAttendance, refreshStudents, refreshAttendance, sfVars,
                 afVars, outVars>>

\* ------------------------------------------------------------ input values
TxtA == <<"A">>
TxtB == <<"B">>
TxtBlank == <<" ">>
Dni1 == <<"1", "2", "3", "4", "5", "6", "7", "8">>
Dni2 == <<"8", "7", "6", "5", "4", "3", "2", "1">>
Email1 == <<"a", "@", "b", ".", "a">>
Carrera1 == <<"M">>
Curso1 == <<"M">>
Curso2 == <<"x">>
Curso3 == <<"a">>
Tomorrow == Today + 1

\* the filters the attendance list can be set to
AnyFilter ==
  [fecha : {NoDate, Today, Tomorrow}, curso : {<< >>, Curso1, Curso2, Curso3}]

\* ------------------------------------------------------------------- Init
\* the parts of a state: each component as it is when it holds nothing
EmptyStore ==
  /\ students = {}
  /\ attendance = {}
  /\ nextStudentId = 1
  /\ nextAttendanceId = 1
  /\ now = 0
  /\ referencedDeleted = {}
  /\ stamped = {}
  /\ otherAnswer = NoError
  /\ overtaken = {}
  /\ staleShown = {}

NoStudentForm ==
  /\ showStudentForm = FALSE
  /\ editingStudent = NoStudent
  /\ sfFormData = StudentFormInitial
  /\ sfLoading = FALSE
  /\ sfErrors = NoErrors

NoAttendanceForm ==
  /\ showAttendanceForm = FALSE
  /\ editingAttendance = NoAttendance
  /\ afStudents = << >>
  /\ afSearchTerm = << >>
  /\ afShowStudentList = FALSE
  /\ afFormData = AttendanceFormInitial
  /\ afSelectedStudent = NoStudent
  /\ afLoading = FALSE
  /\ afErrors = NoErrors

NoStudentList ==
  /\ slStudents = << >>
  /\ slLoading = FALSE
  /\ slSearchTerm = << >>

NoAttendanceList ==
  /\ alAttendances = << >>
  /\ alLoading = FALSE
  /\ alFilterDate = Today
  /\ alFilterCurso = << >>
  /\ alCursos = << >>

\* the page is loaded: the students view is mounted and fetches
Init ==
  /\ EmptyStore
  /\ calls = {[Call(1, "StudentList", "students.select", NoPayload, NoId)
                EXCEPT !.seq = 1]}
  /\ currentView = "students"
  /\ refreshStudents = 0
  /\ refreshAttendance = 0
  /\ NoStudentForm
  /\ NoAttendanceForm
  /\ slStudents = << >>
  /\ slLoading = TRUE
  /\ slSearchTerm = << >>
  /\ NoAttendanceList
  /\ alertMsg = ""

\* ------------------------------------------------- the store, any clients
ValidStudents ==
  [codigo : {TxtA, TxtB}, nombres : {TxtA}, apellidos : {TxtA},
   dni : {Dni1, Dni2}, carrera : {Carrera1}, semestre : {1},
   email : {NULL, Email1}, telefono : {NULL}, activo : {TRUE}]

StorePayloadsStudent ==
  ValidStudents \cup
  {[p EXCEPT !.semestre = n] :
     p \in {q \in ValidStudents : q.codigo = TxtA /\ q.dni = Dni1 /\ q.email = NULL},
     n \in {0, 7}}

ValidAttendances ==
  [student_id : 1..MaxStudentId, fecha : {Today, Tomorrow},
   estado : {"presente"}, hora_entrada : {NULL},
   curso : {Curso1}, observaciones : {NULL}]

StorePayloadsAttendance ==
  ValidAttendances \cup
  {[p EXCEPT !.estado = e, !.curso = Curso2] :
     p \in {q \in ValidAttendances : q.student_id = 1 /\ q.fecha = Today},
     e \in {"justificado", "otro"}}

NextStore ==
  \/ \E p \in StorePayloadsStudent : Other("students.insert", p, NoId)
  \/ \E p \in StorePayloadsStudent, id \in 1..MaxStudentId :
        Other("students.update", p, id)
  \/ \E id \in 1..MaxStudentId : Other("students.delete", NoPayload, id)
  \/ \E p \in StorePayloadsAttendance : Other("attendance.insert", p, NoId)
  \/ \E p \in StorePayloadsAttendance, id \in 1..MaxAttendanceId :
        Other("attendance.update", p, id)
  \/ \E id \in 1..MaxAttendanceId : Other("attendance.delete", NoPayload, id)

SpecStore == Init /\ [][NextStore]_vars

\* ------------------------------------------- validation, over wide inputs
MaxEmailLen == 5

TextsUpTo(chars, n) == UNION {[1..k -> chars] : k \in 0..n}

\* digits mixed with a letter, and digits mixed with a blank
DniInputs ==
  TextsUpTo({"1", "x"}, MaxDniLen) \cup TextsUpTo({"1", " "}, MaxDniLen)
EmailInputs == TextsUpTo({"a", "@", ".", " "}, MaxEmailLen)

ValidForm ==
  [codigo |-> TxtA, nombres |-> TxtA, apellidos |-> TxtB, dni |-> Dni1,
   carrera |-> Carrera1, semestre |-> 1, email |-> << >>, telefono |-> << >>,
   activo |-> TRUE]

Dni7 == <<"1", "2", "3", "4", "5", "6", "7">>
Dni9 == <<"1", "2", "3", "4", "5", "6", "7", "8", "9">>
DniX == <<"1", "2", "3", "4", "x", "6", "7", "8">>

\* what the user may have typed into the student form
ValidateInputs ==
  {[ValidForm EXCEPT !.dni = d] : d \in DniInputs}
  \cup {[ValidForm EXCEPT !.email = e] : e \in EmailInputs}
  \cup [codigo : {<< >>, TxtBlank, TxtA}, nombres : {<< >>, TxtA},
        apellidos : {TxtBlank, TxtB}, dni : {<< >>, TxtBlank, Dni7, Dni1, Dni9, DniX},
        carrera : {<< >>, Carrera1}, semestre : {0, 1, 6, 7},
        email : {<< >>, TxtBlank, Email1, <<"a", "@", "b">>, <<"@", "b", ".", "a">>},
        telefono : {<< >>}, activo : {TRUE}]

\* the student form is open on a new student and holds what was typed
InitValidate ==
  /\ EmptyStore
  /\ calls = {}
  /\ currentView = "students"
  /\ refreshStudents = 0
  /\ refreshAttendance = 0
  /\ showStudentForm = TRUE
  /\ editingStudent = NoStudent
  /\ sfFormData \in ValidateInputs
  /\ sfLoading = FALSE
  /\ sfErrors = NoErrors
  /\ NoAttendanceForm
  /\ NoStudentList
  /\ NoAttendanceList
  /\ alertMsg = ""

NextValidate == StudentHandleSubmit

SpecValidate == InitValidate /\ [][NextValidate]_vars

\* ----------------------------------- the student form, over a seeded store
Seed1 ==
  NewStudentRow([codigo |-> TxtA, nombres |-> TxtA, apellidos |-> TxtA,
                 dni |-> Dni1, carrera |-> Carrera1, semestre |-> 1,
                 email |-> Email1, telefono |-> NULL, activo |-> TRUE], 1, 0)
Seed2 ==
  NewStudentRow([codigo |-> TxtB, nombres |-> TxtA, apellidos |-> TxtB,
                 dni |-> Dni2, carrera |-> Carrera1, semestre |-> 6,
                 email |-> NULL, telefono |-> NULL, activo |-> FALSE], 2, 0)

SeededStudents == {{}, {Seed1}, {Seed1, Seed2}}

\* what the user may have typed into the student form
TypedStudents ==
  [codigo : {TxtA, TxtB}, nombres : {TxtA}, apellidos : {TxtA},
   dni : {Dni1, Dni2}, carrera : {Carrera1}, semestre : {0, 1, 6, 7},
   email : {<< >>, Email1}, telefono : {<< >>}, activo : {TRUE}]

\* the students view shows the students of the store, and the student form
\* is open on a new student or on a listed one, with what was typed
InitStudentForm ==
  /\ students \in SeededStudents
  /\ attendance = {}
  /\ nextStudentId = Cardinality(students) + 1
  /\ nextAttendanceId = 1
  /\ now = 0
  /\ referencedDeleted = {}
  /\ stamped = {}
  /\ otherAnswer = NoError
  /\ overtaken = {}
  /\ staleShown = {}
  /\ calls = {}
  /\ currentView = "students"
  /\ refreshStudents = 0
  /\ refreshAttendance = 0
  /\ showStudentForm = TRUE
  /\ editingStudent \in {NoStudent} \cup students
  /\ sfFormData \in TypedStudents
  /\ sfLoading = FALSE
  /\ sfErrors = NoErrors
  /\ NoAttendanceForm
  /\ slStudents \in OrderByApellidos(students)
  /\ slLoading = FALSE
  /\ slSearchTerm = << >>
  /\ NoAttendanceList
  /\ alertMsg = ""

NextStudentForm ==
  \/ \E c \in calls : StoreExec(c)
  \/ \E n \in {0, 7} :
        Other("students.insert",
              [StudentDataToSave(ValidForm) EXCEPT !.semestre = n], NoId)
  \/ \E n \in {0, 7}, id \in StudentIds :
        Other("students.update",
              [StudentDataToSave(ValidForm) EXCEPT !.semestre = n], id)
  \/ StudentHandleSubmit
  \/ \E c \in calls : StudentFormReceive(c)
  \/ HandleCloseStudentForm
  \/ \E r \in Range(slStudents), confirmed \in BOOLEAN :
        StudentListHandleDelete(r, confirmed)
  \/ \E c \in calls : StudentListReceive(c)
  \/ DismissAlert

SpecStudentForm == InitStudentForm /\ [][NextStudentForm]_vars

\* -------------------------------- the attendance form, over a seeded store
SeedAttendance ==
  NewAttendanceRow([student_id |-> 1, fecha |-> Today, estado |-> "presente",
                    hora_entrada |-> NULL, curso |-> Curso1,
                    observaciones |-> NULL], 1, 0)

\* what the user may have typed into the attendance form, sid being selected
TypedAttendances(sid) ==
  [student_id : {sid}, fecha : {NoDate, Today}, estado : {"presente"},
   hora_entrada : {<< >>}, curso : {<< >>, TxtBlank, Curso1},
   observaciones : {<< >>}]

\* the attendance view shows the entries of today, and the attendance form
\* is open on a new entry or on a listed one, its roster loaded, with what
\* was typed
InitAttendanceForm ==
  /\ students \in {{Seed1}, {Seed1, Seed2}}
  /\ attendance \in {{}, {SeedAttendance}}
  /\ nextStudentId = Cardinality(students) + 1
  /\ nextAttendanceId = Cardinality(attendance) + 1
  /\ now = 0
  /\ referencedDeleted = {}
  /\ stamped = {}
  /\ otherAnswer = NoError
  /\ overtaken = {}
  /\ staleShown = {}
  /\ calls = {}
  /\ currentView = "attendance"
  /\ refreshStudents = 0
  /\ refreshAttendance = 0
  /\ NoStudentForm
  /\ NoStudentList
  /\ alAttendances \in
       SelectAttendance(attendance, students, [fecha |-> Today, curso |-> << >>])
  /\ alLoading = FALSE
  /\ alFilterDate = Today
  /\ alFilterCurso = << >>
  /\ alCursos = SortedTexts({a.curso : a \in Range(alAttendances)})
  /\ showAttendanceForm = TRUE
  /\ editingAttendance \in {NoAttendance} \cup Range(alAttendances)
  /\ afStudents \in OrderByApellidos({r \in students : r.activo})
  /\ afSearchTerm = << >>
  /\ afShowStudentList = FALSE
  /\ afSelectedStudent \in
       IF editingAttendance = NoAttendance
       THEN {NoStudent} \cup Range(afStudents)
       ELSE {editingAttendance.students}
  /\ afFormData \in TypedAttendances(afSelectedStudent.id)
  /\ afLoading = FALSE
  /\ afErrors = NoErrors
  /\ alertMsg = ""

NextAttendanceForm ==
  \/ \E c \in calls : StoreExec(c)
  \/ \E id \in StudentIds : Other("students.delete", NoPayload, id)
  \/ \E p \in {q \in ValidAttendances : q.fecha = Today} :
        Other("attendance.insert", p, NoId)
  \/ \E p \in {q \in ValidAttendances : q.fecha = Tomorrow},
        id \in {a.id : a \in attendance} :
        Other("attendance.update", p, id)
  \/ \E term \in {<< >>, TxtB} : AttendanceSearch(term)
  \/ \E r \in Range(afStudents) : SelectStudent(r)
  \/ ChangeSelection
  \/ AttendanceHandleSubmit
  \/ \E c \in calls : AttendanceFormReceive(c)
  \/ HandleCloseAttendanceForm
  \/ \E c \in calls : AttendanceListReceive(c)
  \/ DismissAlert

SpecAttendanceForm == InitAttendanceForm /\ [][NextAttendanceForm]_vars

\* ------------------------------------ the attendance list, over a seeded store
SeedAttendance2 ==
  NewAttendanceRow([student_id |-> 2, fecha |-> Today, estado |-> "ausente",
                    hora_entrada |-> NULL, curso |-> Curso2,
                    observaciones |-> NULL], 2, 1)
SeedAttendance3 ==
  NewAttendanceRow([student_id |-> 1, fecha |-> Tomorrow, estado |-> "tardanza",
                    hora_entrada |-> NULL, curso |-> Curso3,
                    observaciones |-> NULL], 3, 1)
SeedAttendance4 ==
  NewAttendanceRow([student_id |-> 1, fecha |-> Today, estado |-> "presente",
                    hora_entrada |-> NULL, curso |-> Curso1,
                    observaciones |-> NULL], 4, 1)

SeededAttendances ==
  SUBSET {SeedAttendance, SeedAttendance2, SeedAttendance3, SeedAttendance4}

\* the attendance view is mounted and shows the entries of today
InitAttendanceList ==
  /\ students = {Seed1, Seed2}
  /\ attendance \in SeededAttendances
  /\ nextStudentId = 3
  /\ nextAttendanceId = 5
  /\ now = 1
  /\ referencedDeleted = {}
  /\ stamped = {}
  /\ otherAnswer = NoError
  /\ overtaken = {}
  /\ staleShown = {}
  /\ calls = {}
  /\ currentView = "attendance"
  /\ refreshStudents = 0
  /\ refreshAttendance = 0
  /\ NoStudentForm
  /\ NoAttendanceForm
  /\ NoStudentList
  /\ alAttendances \in
       SelectAttendance(attendance, students, [fecha |-> Today, curso |-> << >>])
  /\ alLoading = FALSE
  /\ alFilterDate = Today
  /\ alFilterCurso = << >>
  /\ alCursos = SortedTexts({a.curso : a \in Range(alAttendances)})
  /\ alertMsg = ""

NextAttendanceList ==
  \/ \E c \in calls : StoreExec(c)
  \/ \E id \in {a.id : a \in attendance} : Other("attendance.delete", NoPayload, id)
  \/ \E f \in AnyFilter : SetFilter(f.fecha, f.curso)
  \/ \E c \in calls : AttendanceListReceive(c)

SpecAttendanceList == InitAttendanceList /\ [][NextAttendanceList]_vars

\* -------------------------------------- the student list, over a seeded store
\* what the user may type into the search input of the list
SearchTerms ==
  {<< >>, <<"a">>, <<"A">>, <<"b">>, <<"B">>, <<"x">>, <<"1", "2">>, <<"2", "1">>}

\* the students view is mounted and loaded
InitStudentList ==
  /\ students = {Seed1, Seed2}
  /\ attendance = {}
  /\ nextStudentId = 3
  /\ nextAttendanceId = 1
  /\ now = 1
  /\ referencedDeleted = {}
  /\ stamped = {}
  /\ otherAnswer = NoError
  /\ overtaken = {}
  /\ staleShown = {}
  /\ calls = {}
  /\ currentView = "students"
  /\ refreshStudents = 0
  /\ refreshAttendance = 0
  /\ NoStudentForm
  /\ NoAttendanceForm
  /\ slStudents \in OrderByApellidos(students)
  /\ slLoading = FALSE
  /\ slSearchTerm = << >>
  /\ NoAttendanceList
  /\ alertMsg = ""

NextStudentList ==
  \/ \E c \in calls : StoreExec(c)
  \/ \E id \in 1..MaxStudentId, codigo \in {TxtA, TxtB, Curso2} :
        Other("students.update",
              [StudentDataToSave(ValidForm) EXCEPT !.codigo = codigo], id)
  \/ \E term \in SearchTerms : StudentListSearch(term)
  \/ \E r \in Range(slStudents), confirmed \in BOOLEAN :
        StudentListHandleDelete(r, confirmed)
  \/ \E c \in calls : StudentListReceive(c)

SpecStudentList == InitStudentList /\ [][NextStudentList]_vars

\* ------------------------- either view with its form open, over a seeded store
Tel1 == <<"9">>
Hora1 == <<"0", "8", ":", "0", "0">>

\* what the user may have typed into the student form
PageStudents ==
  [codigo : {TxtB}, nombres : {TxtA}, apellidos : {TxtB}, dni : {Dni2},
   carrera : {Carrera1}, semestre : {1, 7}, email : {<< >>, Email1},
   telefono : {<< >>, Tel1}, activo : {TRUE}]

\* what the user may have typed into the attendance form
PageAttendances ==
  [student_id : {1}, fecha : {Today}, estado : {"presente"},
   hora_entrada : {<< >>, Hora1}, curso : {Curso1, TxtBlank},
   observaciones : {<< >>, TxtA}]

PageStore ==
  /\ students = {Seed1}
  /\ attendance = {SeedAttendance}
  /\ nextStudentId = 2
  /\ nextAttendanceId = 2
  /\ now = 1
  /\ referencedDeleted = {}
  /\ stamped = {}
  /\ otherAnswer = NoError
  /\ overtaken = {}
  /\ staleShown = {}
  /\ calls = {}
  /\ refreshStudents = 0
  /\ refreshAttendance = 0
  /\ alertMsg = ""

\* the students view, loaded, with the student form open on a new student
\* or on the listed one
InitStudentsPage ==
  /\ PageStore
  /\ currentView = "students"
  /\ slStudents = <<Seed1>>
  /\ slLoading = FALSE
  /\ slSearchTerm = << >>
  /\ showStudentForm = TRUE
  /\ editingStudent \in {NoStudent, Seed1}
  /\ sfFormData \in PageStudents
  /\ sfLoading = FALSE
  /\ sfErrors = NoErrors
  /\ NoAttendanceForm
  /\ NoAttendanceList

\* the attendance view, loaded, with the attendance form open on a new entry
\* or on the listed one
InitAttendancePage ==
  /\ PageStore
  /\ currentView = "attendance"
  /\ NoStudentForm
  /\ NoStudentList
  /\ alAttendances = <<Joined(SeedAttendance, students)>>
  /\ alLoading = FALSE
  /\ alFilterDate = Today
  /\ alFilterCurso = << >>
  /\ alCursos = <<Curso1>>
  /\ showAttendanceForm = TRUE
  /\ editingAttendance \in {NoAttendance, alAttendances[1]}
  /\ afStudents = <<Seed1>>
  /\ afSearchTerm = << >>
  /\ afShowStudentList = FALSE
  /\ afSelectedStudent = Seed1
  /\ afFormData \in PageAttendances
  /\ afLoading = FALSE
  /\ afErrors = NoErrors

InitPage == InitStudentsPage \/ InitAttendancePage

NextPage ==
  \/ \E c \in calls : StoreExec(c)
  \/ StudentHandleSubmit
  \/ \E c \in calls : StudentFormReceive(c)
  \/ HandleCloseStudentForm
  \/ \E r \in Range(slStudents), confirmed \in BOOLEAN :
        StudentListHandleDelete(r, confirmed)
  \/ \E c \in calls : StudentListReceive(c)
  \/ AttendanceHandleSubmit
  \/ \E c \in calls : AttendanceFormReceive(c)
  \/ HandleCloseAttendanceForm
  \/ \E f \in {g \in AnyFilter : g.fecha # Tomorrow /\ g.curso \in {<< >>, Curso1}} :
        SetFilter(f.fecha, f.curso)
  \/ \E a \in Range(alAttendances), confirmed \in BOOLEAN :
        AttendanceListHandleDelete(a, confirmed)
  \/ \E c \in calls : AttendanceListReceive(c)
  \/ DismissAlert

SpecPage == InitPage /\ [][NextPage]_vars

\* ------------------------ the roster of the attendance form, over a seeded store
Dni3 == <<"1", "1", "1", "1", "1", "1", "1", "1">>
Seed3 ==
  NewStudentRow([codigo |-> Curso2, nombres |-> TxtB, apellidos |-> Curso1,
                 dni |-> Dni3, carrera |-> Carrera1, semestre |-> 1,
                 email |-> NULL, telefono |-> NULL, activo |-> TRUE], 3, 0)

\* what the user may type into the search box of the roster
RosterTerms == {<< >>, <<"b">>, <<"m">>}

\* the row r as another client sends it to switch the student off
Deactivated(r) ==
  [StudentDataToSave(StudentFormPrefill(r)) EXCEPT !.activo = FALSE]

\* the attendance view is mounted and loaded, no form is open
InitRoster ==
  /\ students = {Seed1, Seed2, Seed3}
  /\ attendance = {SeedAttendance}
  /\ nextStudentId = 4
  /\ nextAttendanceId = 2
  /\ now = 1
  /\ referencedDeleted = {}
  /\ stamped = {}
  /\ otherAnswer = NoError
  /\ overtaken = {}
  /\ staleShown = {}
  /\ calls = {}
  /\ currentView = "attendance"
  /\ refreshStudents = 0
  /\ refreshAttendance = 0
  /\ NoStudentForm
  /\ NoAttendanceForm
  /\ NoStudentList
  /\ alAttendances = <<Joined(SeedAttendance, students)>>
  /\ alLoading = FALSE
  /\ alFilterDate = Today
  /\ alFilterCurso = << >>
  /\ alCursos = <<Curso1>>
  /\ alertMsg = ""

NextRoster ==
  \/ \E c \in calls : StoreExec(c)
  \/ \E r \in {x \in students : x.id = 3} :
        Other("students.update", Deactivated(r), r.id)
  \/ HandleAddAttendance
  \/ \E a \in Range(alAttendances) : HandleEditAttendance(a)
  \/ \E term \in RosterTerms : AttendanceSearch(term)
  \/ \E r \in Range(afStudents) : SelectStudent(r)
  \/ ChangeSelection
  \/ AttendanceHandleChange("curso", Curso1)
  \/ AttendanceHandleSubmit
  \/ \E c \in calls : AttendanceFormReceive(c)
  \/ HandleCloseAttendanceForm
  \/ \E c \in calls : AttendanceListReceive(c)
  \/ DismissAlert

SpecRoster == InitRoster /\ [][NextRoster]_vars

\* ------------------- either list with deletes and fetches on their way at once
RaceStore ==
  /\ students = {Seed1, Seed2}
  /\ attendance = {SeedAttendance, SeedAttendance2, SeedAttendance3}
  /\ nextStudentId = 3
  /\ nextAttendanceId = 5
  /\ now = 1
  /\ referencedDeleted = {}
  /\ stamped = {}
  /\ otherAnswer = NoError
  /\ overtaken = {}
  /\ staleShown = {}
  /\ calls = {}
  /\ refreshStudents = 0
  /\ refreshAttendance = 0
  /\ NoStudentForm
  /\ NoAttendanceForm
  /\ alertMsg = ""

\* either view is mounted and loaded, the attendance list with the entries
\* of today
InitListRace ==
  /\ RaceStore
  /\ \/ /\ currentView = "students"
        /\ slStudents \in OrderByApellidos(students)
        /\ slLoading = FALSE
        /\ slSearchTerm = << >>
        /\ NoAttendanceList
     \/ /\ currentView = "attendance"
        /\ NoStudentList
        /\ alAttendances \in
             SelectAttendance(attendance, students,
                              [fecha |-> Today, curso |-> << >>])
        /\ alLoading = FALSE
        /\ alFilterDate = Today
        /\ alFilterCurso = << >>
        /\ alCursos = SortedTexts({a.curso : a \in Range(alAttendances)})

NextListRace ==
  \/ \E c \in calls : StoreExec(c)
  \/ \E r \in Range(slStudents), confirmed \in BOOLEAN :
        StudentListHandleDelete(r, confirmed)
  \/ \E c \in calls : StudentListReceive(c)
  \/ \E f \in {g \in AnyFilter : g.fecha # NoDate} : SetFilter(f.fecha, f.curso)
  \/ \E a \in Range(alAttendances), confirmed \in BOOLEAN :
        AttendanceListHandleDelete(a, confirmed)
  \/ \E c \in calls : AttendanceListReceive(c)
  \/ DismissAlert

SpecListRace == InitListRace /\ [][NextListRace]_vars

\* ------------------------------ two editors of one student, over a seeded store
\* what this client has typed into the edit form of Seed1
EditorForms ==
  {[StudentFormPrefill(Seed1) EXCEPT !.nombres = TxtB, !.telefono = Tel1,
                                     !.email = e, !.semestre = n] :
     e \in {<< >>, Email1}, n \in {1, 2}}

\* what the other editor, whose form was opened on Seed1 as well, submits
OtherEditorSaves ==
  {StudentDataToSave([StudentFormPrefill(Seed1) EXCEPT !.apellidos = a,
                                                       !.semestre = n]) :
     a \in {TxtA, TxtB}, n \in {1, 3}}

InitEditors ==
  /\ students = {Seed1, Seed2}
  /\ attendance = {}
  /\ nextStudentId = 3
  /\ nextAttendanceId = 1
  /\ now = 1
  /\ referencedDeleted = {}
  /\ stamped = {}
  /\ otherAnswer = NoError
  /\ overtaken = {}
  /\ staleShown = {}
  /\ calls = {}
  /\ currentView = "students"
  /\ refreshStudents = 0
  /\ refreshAttendance = 0
  /\ showStudentForm = TRUE
  /\ editingStudent = Seed1
  /\ sfFormData \in EditorForms
  /\ sfLoading = FALSE
  /\ sfErrors = NoErrors
  /\ NoAttendanceForm
  /\ slStudents \in OrderByApellidos(students)
  /\ slLoading = FALSE
  /\ slSearchTerm = << >>
  /\ NoAttendanceList
  /\ alertMsg = ""

NextEditors ==
  \/ \E c \in calls : StoreExec(c)
  \/ \E p \in OtherEditorSaves : Other("students.update", p, Seed1.id)
  \/ Tick
  \/ StudentHandleSubmit
  \/ \E c \in calls : StudentFormReceive(c)
  \/ HandleCloseStudentForm
  \/ \E c \in calls : StudentListReceive(c)
  \/ DismissAlert

SpecEditors == InitEditors /\ [][NextEditors]_vars

\* ------------- the attendance list, every round trip to the store succeeding
InitFilterRace ==
  /\ RaceStore
  /\ currentView = "attendance"
  /\ NoStudentList
  /\ alAttendances \in
       SelectAttendance(attendance, students, [fecha |-> Today, curso |-> << >>])
  /\ alLoading = FALSE
  /\ alFilterDate = Today
  /\ alFilterCurso = << >>
  /\ alCursos = SortedTexts({a.curso : a \in Range(alAttendances)})

NextFilterRace ==
  \/ \E c \in calls : StoreAnswers(c)
  \/ \E f \in AnyFilter : SetFilter(f.fecha, f.curso)
  \/ \E a \in Range(alAttendances), confirmed \in BOOLEAN :
        AttendanceListHandleDelete(a, confirmed)
  \/ \E c \in calls : AttendanceListReceive(c)

SpecFilterRace == InitFilterRace /\ [][NextFilterRace]_vars

\* ------------------------------------------------- the store and its clock
ClockStudent1 == StudentDataToSave(ValidForm)
ClockStudent2 == [ClockStudent1 EXCEPT !.codigo = TxtB, !.dni = Dni2]

\* rows as clients may send them: with or without the timestamp columns
ClockInserts ==
  {ClockStudent1, ClockStudent2,
   ClockStudent2 @@ [created_at |-> MaxNow, updated_at |-> 0]}

ClockUpdates ==
  {ClockStudent1, [ClockStudent1 EXCEPT !.nombres = TxtB],
   ClockStudent1 @@ [updated_at |-> 0],
   ClockStudent1 @@ [created_at |-> MaxNow]}

NextClock ==
  \/ Tick
  \/ \E p \in ClockInserts : Other("students.insert", p, NoId)
  \/ \E p \in ClockUpdates, id \in 1..MaxStudentId :
        Other("students.update", p, id)
  \/ \E id \in 1..MaxStudentId : Other("students.delete", NoPayload, id)

SpecClock == Init /\ [][NextClock]_vars

\* ------------------------------------------------------ the whole program
\* Every step of the page and of the store.  The specifications above are
\* parts of this one: their initial states are states of it.
Next ==
  \/ \E c \in calls : StoreExec(c)
  \/ NextStore
  \/ Tick
  \/ SetCurrentView("students")
  \/ SetCurrentView("attendance")
  \/ HandleAddStudent
  \/ \E r \in Range(slStudents) : HandleEditStudent(r)
  \/ HandleCloseStudentForm
  \/ \E fd \in TypedStudents : \E name \in DOMAIN fd :
        StudentHandleChange(name, fd[name])
  \/ \E b \in BOOLEAN : StudentHandleChange("activo", b)
  \/ StudentHandleSubmit
  \/ \E c \in calls : StudentFormReceive(c)
  \/ \E r \in Range(slStudents), confirmed \in BOOLEAN :
        StudentListHandleDelete(r, confirmed)
  \/ \E c \in calls : StudentListReceive(c)
  \/ \E term \in SearchTerms : StudentListSearch(term)
  \/ HandleAddAttendance
  \/ \E a \in Range(alAttendances) : HandleEditAttendance(a)
  \/ HandleCloseAttendanceForm
  \/ \E term \in {<< >>, TxtB} : AttendanceSearch(term)
  \/ \E r \in Range(afStudents) : SelectStudent(r)
  \/ ChangeSelection
  \/ \E fd \in TypedAttendances(afFormData.student_id) : \E name \in DOMAIN fd :
        AttendanceHandleChange(name, fd[name])
  \/ AttendanceHandleSubmit
  \/ \E c \in calls : AttendanceFormReceive(c)
  \/ \E f \in AnyFilter : SetFilter(f.fecha, f.curso)
  \/ \E a \in Range(alAttendances), confirmed \in BOOLEAN :
        AttendanceListHandleDelete(a, confirmed)
  \/ \E c \in calls : AttendanceListReceive(c)
  \/ DismissAlert

Spec == Init /\ [][Next]_vars

\* ------------------------------------------------------------------ claims
\* the students that were created and are no longer in the table
DeletedStudentIds == (1..(nextStudentId - 1)) \ StudentIds

\* C1: once a student is deleted, the store holds no attendance entry whose
\* student_id is that student, none of the entries that referenced it is in
\* the table, and no attendance query, whatever its date and course filter,
\* returns one of them.
C1_CascadeOnDelete ==
  /\ \A a \in attendance :
       a.student_id \notin DeletedStudentIds /\ a.id \notin referencedDeleted
  /\ \A f \in AnyFilter : \A q \in SelectAttendance(attendance, students, f) :
       \A i \in DOMAIN q :
          q[i].id \notin referencedDeleted /\ q[i].student_id \notin DeletedStudentIds

\* a student with entries was deleted, and other entries are still stored
C1_Witness ==
  /\ referencedDeleted # {}
  /\ attendance # {}

\* every attendance entry references a student of the table
ReferentialIntegrity == \A a \in attendance : a.student_id \in StudentIds

\* an attendance insert on its way that names no student of the table is
\* never accepted, and is answered with a foreign-key violation when the row
\* is otherwise valid
DanglingInsertRefused ==
  \A c \in calls :
     (/\ c.phase = "sent" /\ c.kind = "attendance.insert"
      /\ c.payload.student_id \notin StudentIds) =>
        \A r \in Answers(c.kind, c.payload, c.target) :
           r.error = Err(ForeignKeyViolation, MsgStudentFkey)

\* no client can write an attendance entry that names no student of the table
DanglingWriteRefused ==
  \A p \in ValidAttendances :
     p.student_id \notin StudentIds =>
        /\ Answers("attendance.insert", p, NoId) =
             {Answer(Err(ForeignKeyViolation, MsgStudentFkey), << >>)}
        /\ \A id \in {a.id : a \in attendance} :
             Answers("attendance.update", p, id) =
               {Answer(Err(ForeignKeyViolation, MsgStudentFkey), << >>)}

\* a call of the form that comes back with an error left the tables as they
\* were
FailedCallLeavesStore ==
  (\E c \in calls' : c \notin calls /\ c.phase = "done" /\ c.error # NoError)
     => UNCHANGED <<students, attendance>>

\* C2: every stored attendance entry references an existing student; an
\* insert from the form for a student that was deleted after the roster was
\* loaded is answered with an error and leaves the store unchanged.
C2_ReferentialIntegrity ==
  /\ [](ReferentialIntegrity /\ DanglingInsertRefused /\ DanglingWriteRefused)
  /\ [][FailedCallLeavesStore]_vars

\* the form, its roster loaded before the student was deleted, got a
\* foreign-key violation for its insert
C2_Witness ==
  /\ showAttendanceForm
  /\ afSelectedStudent \in Range(afStudents)
  /\ afSelectedStudent.id \notin StudentIds
  /\ \E c \in calls :
        /\ c.comp = "AttendanceForm" /\ c.kind = "attendance.insert"
        /\ c.phase = "done" /\ c.mounted
        /\ c.error.code = ForeignKeyViolation

\* the rows of the students table hold distinct codigo, dni and non-null email
UniqueStudents ==
  \A r1, r2 \in students :
     r1.id # r2.id =>
        /\ r1.codigo # r2.codigo
        /\ r1.dni # r2.dni
        /\ (r1.email # NULL => r1.email # r2.email)

WouldCollide(p, selfId) ==
  \E r \in students :
     /\ r.id # selfId
     /\ r.codigo = p.codigo \/ r.dni = p.dni \/ (p.email # NULL /\ r.email = p.email)

\* every answer the store can give to payload p written to row selfId
WriteAnswers(p, selfId) ==
  IF selfId = NoId THEN Answers("students.insert", p, NoId)
  ELSE Answers("students.update", p, selfId)

\* a colliding insert or update is never accepted, and is answered with a
\* uniqueness violation when the row is otherwise valid
CollisionsRefused ==
  \A p \in StorePayloadsStudent : \A selfId \in {NoId} \cup StudentIds :
     WouldCollide(p, selfId) =>
        \A r \in WriteAnswers(p, selfId) :
           /\ r.error # NoError
           /\ (p.semestre \in MinSemestre..MaxSemestre =>
                 r.error.code = UniqueViolation)

\* a null email collides with nothing
NullEmailAccepted ==
  \A p \in StorePayloadsStudent :
     (/\ p.email = NULL
      /\ p.semestre \in MinSemestre..MaxSemestre
      /\ \A r \in students : r.codigo # p.codigo /\ r.dni # p.dni)
     => WriteAnswers(p, NoId) = {Answer(NoError, << >>)}

\* a call answered with an error leaves both tables as they were
RefusedLeavesStore ==
  otherAnswer' # NoError => UNCHANGED <<students, attendance>>

\* C3: no two students share codigo, dni or a non-null email; an insert or
\* update that would create such a collision is answered with an error (a
\* uniqueness violation when the row is otherwise valid) and leaves the store
\* unchanged; students with a null email never collide on email.
C3_Uniqueness ==
  /\ [](UniqueStudents /\ CollisionsRefused /\ NullEmailAccepted)
  /\ [][RefusedLeavesStore]_vars

\* a write was refused for uniqueness while two students with a null email
\* are stored
C3_Witness ==
  /\ otherAnswer.code = UniqueViolation
  /\ \E r1, r2 \in students : r1.id # r2.id /\ r1.email = NULL /\ r2.email = NULL

\* an attendance write with an estado outside the set is never accepted
BadEstadoRefused ==
  \A p \in StorePayloadsAttendance :
     p.estado \notin Estados =>
        /\ \A r \in Answers("attendance.insert", p, NoId) : r.error # NoError
        /\ \A id \in {a.id : a \in attendance} :
             \A r \in Answers("attendance.update", p, id) : r.error # NoError

\* C4: every stored attendance entry has one of the four estados, and an
\* insert or update with another estado, sent by any client, is answered with
\* an error and leaves the table unchanged.
C4_EstadoCheck ==
  /\ []((\A a \in attendance : a.estado \in Estados) /\ BadEstadoRefused)
  /\ [][otherAnswer' # NoError => attendance' = attendance]_vars

\* an entry with an estado outside the set was refused by the check
C4_Witness ==
  /\ otherAnswer = Err(CheckViolation, MsgEstadoCheck)
  /\ attendance # {}

\* exactly 8 decimal digits
EightDigits(s) == s \in [1..8 -> Digits]

\* C5: a submission of the student form whose dni is not exactly 8 decimal
\* digits puts a message on the dni field and issues no call to the store.
C5_DniRejectedBeforeStore ==
  [][~EightDigits(sfFormData.dni) =>
       /\ "dni" \in Shown(sfErrors')
       /\ calls' = calls]_vars

\* a dni of nine digits was submitted and refused
C5_Witness ==
  /\ sfFormData.dni \in [1..9 -> Digits]
  /\ "dni" \in Shown(sfErrors)
  /\ calls = {}

\* a student write with this semestre, as another client may send it
WithSemestre(n) == [StudentDataToSave(ValidForm) EXCEPT !.semestre = n]

\* a student write with a semestre outside 1..6 is never accepted
BadSemestreRefused ==
  \A n \in {MinSemestre - 1, MaxSemestre + 1} :
     \A selfId \in {NoId} \cup StudentIds :
        \A r \in WriteAnswers(WithSemestre(n), selfId) : r.error # NoError

\* C6: a submission of the student form whose semestre is outside 1..6 puts
\* a message on the semestre field and issues no call; the store refuses
\* such a value from any client; every stored semestre is within 1..6.
C6_SemestreRange ==
  /\ []((\A r \in students : r.semestre \in 1..6) /\ BadSemestreRefused)
  /\ [][(StudentHandleSubmit /\ sfFormData.semestre \notin 1..6) =>
          /\ "semestre" \in Shown(sfErrors')
          /\ calls' = calls]_vars
  /\ [][(otherAnswer' # otherAnswer /\ otherAnswer' # NoError) =>
          students' = students]_vars

\* a semestre of 7 was refused by the form and by the store, which holds a
\* student of semestre 6
C6_Witness ==
  /\ sfFormData.semestre = MaxSemestre + 1
  /\ "semestre" \in Shown(sfErrors)
  /\ calls = {}
  /\ otherAnswer = Err(CheckViolation, MsgSemestreCheck)
  /\ \E r \in students : r.semestre = MaxSemestre

\* the fields of the attendance form whose rule is violated
ViolatedAttendanceRules(fd) ==
  (IF fd.student_id = NoId THEN {"student_id"} ELSE {})
  \cup (IF fd.fecha = NoDate THEN {"fecha"} ELSE {})
  \cup (IF \A i \in DOMAIN fd.curso : fd.curso[i] \in Whitespace
        THEN {"curso"} ELSE {})

\* C7: a submission of the attendance form with no student selected, an
\* empty date or a blank course puts a message on each field in violation,
\* issues no call to the store and leaves the form open.
C7_AttendanceRequired ==
  [][AttendanceHandleSubmit =>
       /\ Shown(afErrors') = ViolatedAttendanceRules(afFormData)
       /\ (ViolatedAttendanceRules(afFormData) # {} =>
             /\ calls' = calls
             /\ showAttendanceForm'
             /\ afFormData' = afFormData)]_vars

\* a submission with no student, no date and a course of blanks was refused
C7_Witness ==
  /\ showAttendanceForm
  /\ Shown(afErrors) = {"student_id", "fecha", "curso"}
  /\ afFormData.curso = TxtBlank
  /\ calls = {}

AllBlank(s) == \A i \in DOMAIN s : s[i] = " "

\* local@domain.tld: no blank, one "@" that is not first, and after it a "."
\* with something on both sides
EmailShape(s) ==
  /\ \A i \in DOMAIN s : s[i] # " "
  /\ Cardinality({i \in DOMAIN s : s[i] = "@"}) = 1
  /\ LET at == CHOOSE i \in DOMAIN s : s[i] = "@" IN
       /\ at > 1
       /\ \E d \in (at + 2)..(Len(s) - 1) : s[d] = "."

\* the fields of the student form whose rule is violated
ViolatedStudentRules(fd) ==
  {f \in {"codigo", "nombres", "apellidos"} : AllBlank(fd[f])}
  \cup (IF EightDigits(fd.dni) THEN {} ELSE {"dni"})
  \cup (IF fd.carrera = << >> THEN {"carrera"} ELSE {})
  \cup (IF fd.semestre \in 1..6 THEN {} ELSE {"semestre"})
  \cup (IF fd.email = << >> \/ EmailShape(fd.email) THEN {} ELSE {"email"})

\* C8: after a submission of the student form the fields that show a message
\* are exactly the fields whose rule is violated, and a call is issued to the
\* store if and only if there is none.
C8_ValidationComplete ==
  [][/\ Shown(sfErrors') = ViolatedStudentRules(sfFormData)
     /\ (calls' # calls <=> ViolatedStudentRules(sfFormData) = {})]_vars

\* a submission that broke several rules at once was refused
C8_Witness ==
  /\ Cardinality(Shown(sfErrors)) >= 4
  /\ "email" \in Shown(sfErrors)
  /\ calls = {}

\* the store names a uniqueness constraint only when the row sent collides on
\* the column of that constraint
UniqueAnswerNamesCollision ==
  \A c \in calls :
     (c.comp = "StudentForm" /\ c.phase = "sent") =>
        \A r \in Answers(c.kind, c.payload, c.target) :
           r.error.code = UniqueViolation =>
              \E col \in StudentUniqueColumns :
                 /\ r.error.message = UniqueMessage(col)
                 /\ Collides(c.payload, col, c.target, students)

\* the open form receives a uniqueness violation: the message is on the
\* column the store named and nowhere else, and the form is as it was
UniqueViolationShown(c) ==
  (StudentFormReceive(c) /\ c.mounted /\ c.error.code = UniqueViolation) =>
     /\ \E col \in StudentUniqueColumns :
           /\ c.error.message = UniqueMessage(col)
           /\ Shown(sfErrors') = {col}
     /\ showStudentForm' /\ showStudentForm
     /\ sfFormData' = sfFormData
     /\ editingStudent' = editingStudent
     /\ refreshStudents' = refreshStudents
     /\ slVars' = slVars
     /\ alertMsg' = alertMsg

\* C9: when the store refuses the insert or update of the open student form
\* with a uniqueness violation, the form shows a message on exactly the
\* field that collides, stays open with the values entered, and the list is
\* not refreshed.
C9_UniqueViolationOnField ==
  /\ []UniqueAnswerNamesCollision
  /\ [][\A c \in calls : UniqueViolationShown(c)]_vars

\* the open form shows the email collision alone, the values still in it
C9_Witness ==
  /\ showStudentForm /\ ~sfLoading
  /\ Shown(sfErrors) = {"email"}
  /\ sfErrors["email"] = UniqueErrorText("email")
  /\ sfFormData.email = Email1
  /\ \A r \in students : r.codigo # sfFormData.codigo /\ r.dni # sfFormData.dni
  /\ refreshStudents = 0

\* a component that is on the page takes the answer of one of its calls
Receives(c) ==
  /\ c.mounted
  /\ \/ StudentFormReceive(c)
     \/ StudentListReceive(c)
     \/ AttendanceFormReceive(c)
     \/ AttendanceListReceive(c)

\* C10: every store call that fails, a list fetch, a roster fetch, an
\* insert, an update or a delete, is reported to the user: a message on a
\* form field or an alert.
C10_FailuresReported ==
  [][\A c \in calls :
       (Receives(c) /\ c.error # NoError) =>
          \/ alertMsg' # ""
          \/ Shown(sfErrors') # {}
          \/ Shown(afErrors') # {}]_vars

\* the row of the table with this id, before and after a step
StudentRow(S, id) == CHOOSE r \in S : r.id = id

\* an UPDATE of the row id with payload p is accepted in this step
UpdateAccepted(p, id) ==
  /\ id \in StudentIds
  /\ Other("students.update", p, id)
  /\ otherAnswer' = NoError

\* the rows other than id are as they were
OthersKept(id) == \A r \in students : r.id # id => r \in students'

\* updated_at of no row decreases in this step
UpdatedAtGrows(ids) ==
  \A r \in students : \A r2 \in students' :
     (r2.id = r.id /\ r.id \in ids) => r2.updated_at >= r.updated_at

\* C20 as stated: every accepted update of a student row sets its updated_at
\* to the time of the update, whatever was sent, and leaves its created_at
\* and every other row unchanged; updated_at never decreases and is never
\* earlier than created_at.
C20_UpdatedAtAsStated ==
  /\ [][\A p \in ClockUpdates : \A id \in 1..MaxStudentId :
          UpdateAccepted(p, id) =>
             /\ StudentRow(students', id).updated_at = now
             /\ StudentRow(students', id).created_at =
                  StudentRow(students, id).created_at
             /\ OthersKept(id)]_vars
  /\ [][UpdatedAtGrows(StudentIds)]_vars
  /\ [](\A r \in students : r.updated_at >= r.created_at)

\* C20, amended: every accepted update of a student row sets its updated_at
\* to the time of the update, whatever was sent as updated_at, sets its
\* created_at only when the update sends one, and leaves every other row
\* unchanged; for the rows whose timestamps no client has sent, updated_at
\* never decreases, is never earlier than created_at and never later than
\* the clock.
C20_UpdatedAtByTrigger ==
  /\ [][\A p \in ClockUpdates : \A id \in 1..MaxStudentId :
          UpdateAccepted(p, id) =>
             /\ StudentRow(students', id).updated_at = now
             /\ StudentRow(students', id).created_at =
                  Sent(p, "created_at", StudentRow(students, id).created_at)
             /\ OthersKept(id)]_vars
  /\ [][UpdatedAtGrows(StudentIds \ stamped')]_vars
  /\ [](\A r \in students :
          r.id \notin stamped =>
             r.created_at <= r.updated_at /\ r.updated_at <= now)

\* a row was updated after its creation, an update that sent an updated_at
\* of 0 included, while another row kept its older updated_at
C20_Witness ==
  /\ otherAnswer = NoError
  /\ \E r1, r2 \in students :
        /\ r1.id \notin stamped
        /\ r1.updated_at = MaxNow /\ r1.created_at < MaxNow
        /\ r2.id # r1.id /\ r2.updated_at < MaxNow

\* the answer, in the next state, to the list fetch c that is on its way
FetchAnswer(c) == CHOOSE d \in calls' : d.id = c.id

\* the list fetch c is answered with rows in this step
FetchAnswered(c) ==
  /\ c.phase = "sent" /\ c.kind = "attendance.select"
  /\ \E d \in calls' : d.id = c.id /\ d.phase = "done" /\ d.error = NoError

\* the stored entries of date d and course c, an empty value meaning all
EntriesOf(d, c) ==
  {a \in attendance : (d = NoDate \/ a.fecha = d) /\ (c = << >> \/ a.curso = c)}

\* q lists each entry of E once, with its own columns and its student
ListsJoined(q, E) ==
  /\ Len(q) = Cardinality(E)
  /\ {q[i].id : i \in DOMAIN q} = {a.id : a \in E}
  /\ \A i \in DOMAIN q :
        /\ \E a \in E : \A col \in DOMAIN a : q[i][col] = a[col]
        /\ q[i].students \in students
        /\ q[i].students.id = q[i].student_id

\* fecha descending, then created_at descending
NewestFirst(q) ==
  \A i, j \in DOMAIN q :
     i < j => \/ q[i].fecha > q[j].fecha
              \/ q[i].fecha = q[j].fecha /\ q[i].created_at >= q[j].created_at

\* C11: a list fetch issued with date filter d and course filter c returns
\* exactly the stored entries of date d (all dates when d is empty) and
\* course c (all courses when c is empty), each joined with its student,
\* ordered by fecha descending and then by created_at descending.
C11_FilteredFetch ==
  [][\A c \in calls :
       FetchAnswered(c) =>
          /\ ListsJoined(FetchAnswer(c).data,
                         EntriesOf(c.payload.fecha, c.payload.curso))
          /\ NewestFirst(FetchAnswer(c).data)]_vars

\* a fetch of today's entries of one course came back with two of them, the
\* later created first, while the store holds entries of another course and
\* of another date
C11_Witness ==
  /\ Cardinality(attendance) = 4
  /\ \E c \in calls :
        /\ c.kind = "attendance.select" /\ c.phase = "done"
        /\ c.payload = [fecha |-> Today, curso |-> Curso1]
        /\ Len(c.data) = 2
        /\ c.data[1].created_at > c.data[2].created_at

\* C13: the courses offered by the course filter are exactly the distinct
\* curso values of the loaded entries, each once, in sorted order; none comes
\* from an entry outside the loaded result.
C13_CourseOptions ==
  /\ {alCursos[i] : i \in DOMAIN alCursos} = {a.curso : a \in Range(alAttendances)}
  /\ \A i, j \in DOMAIN alCursos :
        i < j => alCursos[i] # alCursos[j] /\ TextLeq(alCursos[i], alCursos[j])

\* after the date filter was moved to tomorrow and the fetch came back, one
\* course is offered, while the store holds entries of other courses
C13_Witness ==
  /\ alFilterDate = Tomorrow /\ ~alLoading
  /\ alCursos = <<Curso3>>
  /\ \E a \in attendance : a.curso = Curso1
  /\ \E a \in attendance : a.curso = Curso2

\* term occurs in text, letters compared without regard to case
OccursIgnoringCase(term, text) ==
  \E from \in 1..(Len(text) + 1) :
     /\ from + Len(term) - 1 <= Len(text)
     /\ ToLowerCase(SubSeq(text, from, from + Len(term) - 1)) = ToLowerCase(term)

\* the lower-cased term occurs in the stored dni
OccursInDni(term, dni) ==
  \E from \in 1..(Len(dni) + 1) :
     /\ from + Len(term) - 1 <= Len(dni)
     /\ SubSeq(dni, from, from + Len(term) - 1) = ToLowerCase(term)

NamedBy(term, r) ==
  \/ OccursIgnoringCase(term, r.nombres)
  \/ OccursIgnoringCase(term, r.apellidos)
  \/ OccursIgnoringCase(term, r.codigo)

\* the rows shown are loaded rows, in the order they were fetched in
KeepsFetchedOrder ==
  \E at \in [DOMAIN FilteredStudents -> DOMAIN slStudents] :
     /\ \A i \in DOMAIN FilteredStudents : slStudents[at[i]] = FilteredStudents[i]
     /\ \A i, j \in DOMAIN FilteredStudents : i < j => at[i] < at[j]

\* C12 as stated: a loaded student is shown exactly when the search term
\* occurs, without regard to case, in nombres, apellidos or codigo.
C12_ShownByNameOrCode ==
  /\ \A r \in Range(slStudents) :
        r \in Range(FilteredStudents) <=> NamedBy(slSearchTerm, r)
  /\ KeepsFetchedOrder
  /\ slSearchTerm = << >> => FilteredStudents = slStudents

\* C12: a loaded student is shown exactly when the search term occurs,
\* without regard to case, in nombres, apellidos or codigo, or when the
\* lower-cased term occurs in the dni; the rows shown keep the fetched order,
\* and an empty term shows every loaded student.
C12_ShownByNameCodeOrDni ==
  /\ \A r \in Range(slStudents) :
        r \in Range(FilteredStudents) <=>
           NamedBy(slSearchTerm, r) \/ OccursInDni(slSearchTerm, r.dni)
  /\ KeepsFetchedOrder
  /\ slSearchTerm = << >> => FilteredStudents = slStudents

\* two students are loaded; the term, typed in the other case, is in the
\* apellidos and codigo of the second only, which alone is shown
C12_Witness ==
  /\ Len(slStudents) = 2
  /\ slSearchTerm = <<"b">>
  /\ slStudents[2].apellidos = TxtB
  /\ FilteredStudents = <<slStudents[2]>>

\* the inserts and updates of the form on screen that are on their way
Saving(comp) ==
  {c \in calls : c.comp = comp /\ c.mounted
                 /\ c.kind \in {"students.insert", "students.update",
                                "attendance.insert", "attendance.update"}}

Handled(c) == alertMsg = "" /\ \A d \in calls' : d.id # c.id \/ d.kind # c.kind

\* the calls that are new in the next state
Issued ==
  {d \in calls' : /\ d.phase = "sent"
                  /\ \A c \in calls : c.id # d.id \/ c.kind # d.kind}

\* the delete c of a list has come back and is handled in this step
DeleteHandled(c) ==
  /\ c.kind \in {"students.delete", "attendance.delete"}
  /\ c.phase = "done" /\ Handled(c)

ListRowsKept == slStudents' = slStudents /\ alAttendances' = alAttendances

DeleteAlertOf(kind) ==
  IF kind = "students.delete" THEN "Error al eliminar el estudiante"
  ELSE "Error al eliminar el registro"

FetchOf(kind) ==
  IF kind = "students.delete" THEN "students.select" ELSE "attendance.select"

\* C15: in both lists a delete reaches the store only after the user has
\* confirmed; when the user declines, no call is made and nothing changes;
\* when the delete fails, a generic alert is shown, the list is not fetched
\* again and its rows stay as they were; when it succeeds, the list is
\* fetched again exactly once.
C15_DeleteFlow ==
  [][/\ \A d \in Issued :
          /\ d.kind = "students.delete" =>
                \E r \in Range(slStudents) :
                   d.target = r.id /\ StudentListHandleDelete(r, TRUE)
          /\ d.kind = "attendance.delete" =>
                \E a \in Range(alAttendances) :
                   d.target = a.id /\ AttendanceListHandleDelete(a, TRUE)
     /\ \A r \in Range(slStudents) :
          StudentListHandleDelete(r, FALSE) => UNCHANGED vars
     /\ \A a \in Range(alAttendances) :
          AttendanceListHandleDelete(a, FALSE) => UNCHANGED vars
     /\ \A c \in calls :
          DeleteHandled(c) =>
             IF c.error # NoError
             THEN /\ alertMsg' = DeleteAlertOf(c.kind)
                  /\ Issued = {}
                  /\ ListRowsKept
                  /\ UNCHANGED storeVars
             ELSE /\ Cardinality(Issued) = 1
                  /\ \A d \in Issued : d.kind = FetchOf(c.kind)
                  /\ alertMsg' = ""]_vars

\* the delete of an attendance entry has failed: the alert is up, no call is
\* on its way, and the entry is still listed and still stored
C15_Witness ==
  /\ alertMsg = "Error al eliminar el registro"
  /\ calls = {}
  /\ Len(alAttendances) = 1
  /\ \E a \in attendance : a.id = alAttendances[1].id

\* the fetches of a list that are new in the next state
Fetches(kind) == {d \in Issued : d.kind = kind /\ d.mounted}

\* a save of the form comp has come back without error and is handled
SaveHandled(comp) ==
  \E c \in calls :
     /\ c.comp = comp /\ c.phase = "done" /\ c.error = NoError
     /\ c.kind \in {"students.insert", "students.update",
                    "attendance.insert", "attendance.update"}
     /\ Handled(c)

\* C16: while a list is mounted, every increment of its refresh counter and,
\* in the attendance list, every change of a filter value starts exactly one
\* new fetch, made with the values then current; a successful save of a form
\* increments the counter of its list.
C16_RefreshAndFilterFetch ==
  [][/\ (refreshStudents' # refreshStudents /\ currentView = "students"
           /\ currentView' = "students")
          => Cardinality(Fetches("students.select")) = 1
     /\ ((refreshAttendance' # refreshAttendance
            \/ alFilterDate' # alFilterDate \/ alFilterCurso' # alFilterCurso)
           /\ currentView = "attendance" /\ currentView' = "attendance")
          => /\ Cardinality(Fetches("attendance.select")) = 1
             /\ \A d \in Fetches("attendance.select") :
                   d.payload = [fecha |-> alFilterDate', curso |-> alFilterCurso']
     /\ SaveHandled("StudentForm") => refreshStudents' = refreshStudents + 1
     /\ SaveHandled("AttendanceForm") => refreshAttendance' = refreshAttendance + 1
    ]_vars

\* the course filter was set after a save of the attendance form had
\* refreshed the list, and the fetch of that course is on its way
C16_Witness ==
  /\ refreshAttendance = 1
  /\ alFilterCurso = Curso1
  /\ \E c \in calls :
        /\ c.kind = "attendance.select" /\ c.phase = "sent" /\ c.mounted
        /\ c.payload = [fecha |-> alFilterDate, curso |-> Curso1]

NullIfEmpty(v) == IF v = << >> THEN NULL ELSE v

\* the store accepts the save c of the form comp in this step
SaveAccepted(c, comp) ==
  /\ c.comp = comp /\ c.phase = "sent"
  /\ c.kind \in {"students.insert", "students.update",
                 "attendance.insert", "attendance.update"}
  /\ \E d \in calls' : d.id = c.id /\ d.kind = c.kind /\ d.phase = "done"
                       /\ d.error = NoError

\* the row that the save c has written
Written(c, T) ==
  {r \in T : r.id = (IF c.kind = "students.insert" THEN nextStudentId
                     ELSE IF c.kind = "attendance.insert" THEN nextAttendanceId
                     ELSE c.target)}

\* C17: no record persisted through a form carries an empty string in an
\* optional field: an empty email or telefono of the student form, and an
\* empty hora_entrada or observaciones of the attendance form, is stored as
\* null, and a value that is not empty is stored as it was typed.
C17_EmptyOptionalAsNull ==
  [][\A c \in calls :
       /\ SaveAccepted(c, "StudentForm") =>
            \A r \in Written(c, students') :
               /\ r.email # << >> /\ r.telefono # << >>
               /\ c.mounted => /\ r.email = NullIfEmpty(sfFormData.email)
                               /\ r.telefono = NullIfEmpty(sfFormData.telefono)
       /\ SaveAccepted(c, "AttendanceForm") =>
            \A a \in Written(c, attendance') :
               /\ a.hora_entrada # << >> /\ a.observaciones # << >>
               /\ c.mounted =>
                    /\ a.hora_entrada = NullIfEmpty(afFormData.hora_entrada)
                    /\ a.observaciones = NullIfEmpty(afFormData.observaciones)
    ]_vars

\* a student saved from the form with a telefono and without email is
\* stored with that telefono and a null email
C17_Witness ==
  \E r \in students :
     /\ r.id = 2 /\ r.telefono = Tel1 /\ r.email = NULL
     /\ \E c \in calls :
          /\ c.kind = "students.insert" /\ c.phase = "done" /\ c.mounted
          /\ sfFormData.email = << >> /\ sfFormData.telefono = Tel1

\* the roster fetch c is answered with rows in this step
RosterAnswered(c) ==
  /\ c.phase = "sent" /\ c.kind = "students.selectActive"
  /\ \E d \in calls' : d.id = c.id /\ d.kind = c.kind /\ d.phase = "done"
                       /\ d.error = NoError

RosterAnswer(c) == CHOOSE d \in calls' : d.id = c.id /\ d.kind = c.kind

\* the students the roster search offers
Offered == Range(AttendanceFormFiltered)

\* C18: in create mode the students offered by the attendance form are
\* exactly those of the roster snapshot, taken with activo = true when the
\* form loaded it, whose nombres, apellidos or codigo contain the search
\* term without regard to case; an inactive student is never offered, and
\* every entry the form creates references a student of that snapshot.
C18_ActiveRosterOnly ==
  [][/\ \A c \in calls :
          RosterAnswered(c) =>
             Range(RosterAnswer(c).data) = {r \in students : r.activo = TRUE}
     /\ \A r \in Range(afStudents) : r.activo = TRUE
     /\ \A r \in Range(afStudents) : r \in Offered <=> NamedBy(afSearchTerm, r)
     /\ Offered \subseteq Range(afStudents)
     /\ (editingAttendance' = NoAttendance /\ afSelectedStudent' # afSelectedStudent
           /\ afSelectedStudent' # NoStudent /\ showAttendanceForm')
          => afSelectedStudent' \in Offered
     /\ \A d \in Issued :
          (d.kind = "attendance.insert" /\ d.comp = "AttendanceForm")
            => \E r \in Range(afStudents) : r.id = d.payload.student_id
    ]_vars

\* an entry is being created for a student of the roster whom another client
\* has switched off since the roster was loaded; the inactive student of the
\* store was never in the roster
C18_Witness ==
  /\ \E c \in calls :
        /\ c.kind = "attendance.insert" /\ c.comp = "AttendanceForm"
        /\ c.payload.student_id = 3
  /\ \E r \in students : r.id = 3 /\ ~r.activo
  /\ Len(afStudents) = 2
  /\ \E r \in students : r.id = 2 /\ ~r.activo

\* a student is selected in the form
Selected == showAttendanceForm /\ afSelectedStudent # NoStudent

FetchTaken(c) ==
  /\ c.kind \in {"students.select", "attendance.select"}
  /\ c.phase = "done" /\ c.error = NoError /\ c.mounted
  /\ Handled(c)

\* C21: the rows of a list are those of the fetch that came back last, not of
\* the fetch that was issued last: whatever fetch comes back sets the rows,
\* also when a fetch issued after it has come back before it, so that the
\* list can be left showing the older result.
C21_CompletionOrder ==
  [][\A c \in calls :
       FetchTaken(c) =>
          IF c.kind = "students.select"
          THEN slStudents' = c.data
          ELSE /\ alAttendances' = c.data
               /\ {alCursos'[i] : i \in DOMAIN alCursos'}
                    = {a.curso : a \in Range(c.data)}]_vars

\* no call is on its way and the attendance list shows the rows of a fetch
\* that came back after a fetch issued later than it: among them is an entry
\* that is no longer stored
C21_Witness ==
  /\ "AttendanceList" \in staleShown
  /\ calls = {} /\ ~alLoading /\ alertMsg = ""
  /\ \E i \in DOMAIN alAttendances :
        \A a \in attendance : a.id # alAttendances[i].id

\* a save of the form comp has come back with an error and is handled
SaveFailed(comp) ==
  \E c \in calls :
     /\ c.comp = comp /\ c.phase = "done" /\ c.error # NoError
     /\ c.kind \in {"students.insert", "students.update",
                    "attendance.insert", "attendance.update"}
     /\ Handled(c)

\* an edit target is set only while its form is open
TargetOnlyInForm ==
  /\ editingStudent # NoStudent => showStudentForm
  /\ editingAttendance # NoAttendance => showAttendanceForm

\* C22: the refresh counters never decrease and change only when a save has
\* succeeded: the counter of a form goes up by exactly one, and the form is
\* closed with its edit target cleared, when and only when an insert or
\* update of the form has succeeded; a failed validation, a failed save and
\* a cancel leave the counters alone, and a failed save leaves the form
\* open.  An edit target is set only while its form is open.
C22_RefreshOnlyOnSave ==
  /\ []TargetOnlyInForm
  /\ [][/\ refreshStudents' # refreshStudents <=> SaveHandled("StudentForm")
        /\ refreshAttendance' # refreshAttendance <=> SaveHandled("AttendanceForm")
        /\ SaveHandled("StudentForm") =>
              /\ refreshStudents' = refreshStudents + 1
              /\ ~showStudentForm' /\ editingStudent' = NoStudent
        /\ SaveHandled("AttendanceForm") =>
              /\ refreshAttendance' = refreshAttendance + 1
              /\ ~showAttendanceForm' /\ editingAttendance' = NoAttendance
        /\ SaveFailed("StudentForm") =>
              /\ showStudentForm' = showStudentForm
              /\ editingStudent' = editingStudent
        /\ SaveFailed("AttendanceForm") =>
              /\ showAttendanceForm' = showAttendanceForm
              /\ editingAttendance' = editingAttendance
       ]_vars

\* an edit of the listed attendance entry was saved: the counter is at one,
\* the form is closed, no edit target is set, the entry is stored as edited
C22_Witness ==
  /\ refreshAttendance = 1 /\ refreshStudents = 0
  /\ ~showAttendanceForm /\ editingAttendance = NoAttendance
  /\ \E a \in attendance : a.id = 1 /\ a.hora_entrada = Hora1

\* the row of S with identifier id has, in every field of the form, the
\* value that p has
HoldsSubmitted(S, id, p) ==
  \E r \in S :
     /\ r.id = id
     /\ \A col \in {"codigo", "nombres", "apellidos", "dni", "carrera",
                    "semestre", "email", "telefono", "activo"} : r[col] = p[col]

\* no call of this client has come back with an error of the store
NoConflictReported ==
  \A c \in calls : c.phase = "done" => c.error \in {NoError, FetchError}

\* C23: when two clients have the edit form open on the same student and
\* both submit valid values that collide with no other student, both updates
\* succeed and no conflict is reported; after each update the stored record
\* has, in every field of the form, the values of that update, so that it
\* finally holds those of the update applied last, also in the fields its
\* editor did not touch.
C23_LastWriteWins ==
  /\ []NoConflictReported
  /\ [][/\ \A p \in OtherEditorSaves :
             Other("students.update", p, Seed1.id) =>
                /\ otherAnswer' = NoError
                /\ HoldsSubmitted(students', Seed1.id, p)
        /\ \A c \in calls :
             (c.kind = "students.update" /\ c.phase = "sent"
                /\ \E d \in calls' : d.id = c.id /\ d.phase = "done"
                                     /\ d.error # FetchError)
               => HoldsSubmitted(students', c.target, c.payload)
       ]_vars

\* this client's update, which set telefono and nombres, has succeeded, and
\* the other editor's update was applied after it: the record holds the
\* other editor's apellidos and, again, the nombres and telefono it had when
\* both forms were opened
C23_Witness ==
  /\ refreshStudents = 1 /\ ~showStudentForm
  /\ otherAnswer = NoError
  /\ \E r \in students :
        /\ r.id = Seed1.id
        /\ r.apellidos = TxtB /\ r.semestre = 3
        /\ r.nombres = Seed1.nombres /\ r.telefono = Seed1.telefono
        /\ r.updated_at = MaxNow

\* no fetch and no delete of the attendance list is on its way
ListQuiet ==
  /\ currentView = "attendance" /\ ~alLoading
  /\ \A c \in calls : c.comp # "AttendanceList"

\* C24: whenever no fetch and no delete issued by the attendance list is on
\* its way, every displayed entry has the selected date, when one is
\* selected, and the selected course, when one is selected.
C24_ShownMatchesFilters ==
  ListQuiet =>
     \A a \in Range(alAttendances) :
        /\ alFilterDate # NoDate => a.fecha = alFilterDate
        /\ alFilterCurso # << >> => a.curso = alFilterCurso

\* some attendance row of A has identifier id and the columns payload p sends
HoldsEntry(A, id, p) ==
  \E a \in A :
     /\ a.id = id
     /\ \A col \in {"student_id", "fecha", "estado", "hora_entrada", "curso",
                    "observaciones"} : a[col] = p[col]

\* C25: when the update sent by an edit form is answered without error (the
\* answer on which the form closes and sends the refresh signal), the store
\* holds, right after the call, a record with the edited identifier whose
\* fields are the submitted values, also when the record was deleted after
\* the form was opened.
C25_EditStored ==
  [][\A c \in calls :
       (/\ c.kind \in {"students.update", "attendance.update"}
        /\ c.phase = "sent"
        /\ \E d \in calls' : /\ d.id = c.id /\ d.kind = c.kind
                             /\ d.phase = "done" /\ d.error = NoError)
         => IF c.kind = "students.update"
            THEN HoldsSubmitted(students', c.target, c.payload)
            ELSE HoldsEntry(attendance', c.target, c.payload)
    ]_vars

\* C26: while the attendance form is open on an entry, the student_id of the
\* form is the one of that entry, and every update the form sends carries
\* that student_id and is aimed at that entry.
C26_StudentKept ==
  /\ [](showAttendanceForm /\ editingAttendance # NoAttendance
          => afFormData.student_id = editingAttendance.student_id)
  /\ [][\A d \in Issued :
          d.kind = "attendance.update"
            => /\ d.payload.student_id = editingAttendance.student_id
               /\ d.target = editingAttendance.id
       ]_vars

\* the form opened on the seeded entry has sent its update, the roster it
\* had asked for being loaded
C26_Witness ==
  /\ showAttendanceForm /\ editingAttendance # NoAttendance
  /\ Len(afStudents) > 1
  /\ \E c \in calls :
        /\ c.kind = "attendance.update" /\ c.phase = "sent"
        /\ c.payload.student_id = SeedAttendance.student_id
        /\ c.target = SeedAttendance.id

\* C27: once the attendance list has loaded, the selected course is empty
\* (all courses) or one of the options the course filter offers.
C27_SelectedCourseOffered ==
  (currentView = "attendance" /\ ~alLoading)
     => alFilterCurso \in {<< >>} \cup Range(alCursos)

====
